---- MODULE Spec2Model ----
(***************************************************************************)
(* Registry resolution and installation engine of the ocx registry core.   *)
(*                                                                         *)
(*   SpecResolve : resolveRegistryTreeEffect, the depth-first dependency   *)
(*                 resolver (resolve.ts).                                  *)
(*   Spec        : applyInstallPlansEffect, one invocation of the          *)
(*                 installer (install.ts), step by step over the file      *)
(*                 system, so that every state is a possible crash point.  *)
(***************************************************************************)
EXTENDS Integers, Sequences, FiniteSets, TLC

(***************************************************************************)
(* Bounds                                                                  *)
(***************************************************************************)
MaxDeps == 1
MaxRoots == 2
MaxPlans == 2
MaxProps == 2

\* Spec strings handed to the fetcher, and the identities manifests can have.
\* The resolver never looks inside a spec or a name (it hands the spec to the
\* fetcher and compares kind/name keys for equality), so a call only differs from
\* another by which specs and names are equal: specs and names are numbered in
\* the order they are first mentioned, and so are the kinds.
SpecOrd == <<"s1", "s2", "s3">>
NameOrd == <<"x", "y", "z">>
KindOrd == <<"tool", "agent">>

RECURSIVE SeqsUpTo(_, _)
SeqsUpTo(S, n) ==
  IF n = 0 THEN {<<>>}
  ELSE LET shorter == SeqsUpTo(S, n - 1)
       IN shorter \cup {Append(q, e) : q \in {r \in shorter : Len(r) = n - 1}, e \in S}

Range(q) == {q[n] : n \in 1..Len(q)}

SpecNames == Range(SpecOrd)
Names == Range(NameOrd)
Kinds == Range(KindOrd)

\* The next element of ord not in used (used is a prefix of ord), if any.
Fresh(used, ord) ==
  IF Cardinality(used) < Len(ord) THEN {ord[Cardinality(used) + 1]} ELSE {}

\* Sequences of at most n elements of ord, each element one already used or
\* the next fresh one.
RECURSIVE CanonSeqs(_, _, _)
CanonSeqs(used, ord, n) ==
  IF n = 0 THEN {<<>>}
  ELSE {<<>>} \cup
       UNION {{<<e>> \o t : t \in CanonSeqs(used \cup {e}, ord, n - 1)} :
              e \in used \cup Fresh(used, ord)}

(***************************************************************************)
(* Resolver state (resolveRegistryTreeEffect)                              *)
(***************************************************************************)
VARIABLES
  registry,   \* what fetchRegistryItemEffect answers for each spec, once asked
  specs,      \* the root specs of the call
  rootIdx,    \* position of the outer Effect.forEach over specs
  stack,      \* active visit() frames, innermost last
  map,        \* Map<string, ResolvedItem>: keys already resolved
  visiting,   \* Set<string>: keys on the active path
  out,        \* ResolvedItem[]
  rstatus,    \* "running" | "failing" | "ok" | "err"
  rerror,     \* the failure carried by the effect
  fetchLog,   \* history: every completed fetch, in order
  expanded    \* history: keys whose registryDependencies were expanded, in order

rvars == <<registry, specs, rootIdx, stack, map, visiting, out, rstatus, rerror,
           fetchLog, expanded>>

(***************************************************************************)
(* Installer state (applyInstallPlansEffect) and the file system           *)
(***************************************************************************)
VARIABLES
  inv,        \* per invocation: its arguments, its position and its locals
  target,     \* the directory at each plan's item.targetDir
  tmp,        \* per invocation: the staging directory made by mkdtemp
  cfgFile,    \* the file at root.configPath
  cfgTmp,     \* per invocation: the file "file" in writeAtomicEffect's tmp dir
  leaked,     \* the invocations with a temporary directory whose removal failed
  pre,        \* history: target and cfgFile when the call started
  events      \* history: promotions, config renames and spawns, in order

ivars == <<inv, target, tmp, cfgFile, cfgTmp, leaked, pre, events>>

(***************************************************************************)
(* JSONC patcher state: a document and the calls made on it                *)
(***************************************************************************)
VARIABLES
  jdoc,       \* the config file at hand: whether it exists, and its text
  jname,      \* the property name of the calls
  jvalue,     \* the property value of the last upsert
  jcalls,     \* how many upserts the document went through
  jlast,      \* the last call: its operation, input text and result
  jparts      \* history: the parts the first document was put together from

jvars == <<jdoc, jname, jvalue, jcalls, jlast, jparts>>

(***************************************************************************)
(* A call of one of the functions that take no state with them: parseV1,   *)
(* fetchRegistryItemEffect, planInstalls, resolveConfigRoot                *)
(***************************************************************************)
VARIABLES
  cin,        \* the arguments of the call and what it finds around it
  cpc,        \* the position of the call
  cout        \* what the call returned, and what it touched on the way

cvars == <<cin, cpc, cout>>

vars == <<rvars, ivars, jvars, cvars>>

CallIdle ==
  /\ cin = [op |-> "none"]
  /\ cpc = "idle"
  /\ cout = [op |-> "none"]

JsoncIdle ==
  /\ jdoc = [exists |-> FALSE, text |-> <<>>]
  /\ jname = <<>>
  /\ jvalue = [null |-> TRUE]
  /\ jcalls = "idle"
  /\ jlast = [op |-> "none"]
  /\ jparts = [shape |-> "none"]

Invocations == {"a", "b"}

NoError == [tag |-> "none"]

\* A directory that does not exist; an existing directory is the set of its
\* files, each [rel, data, mode].
NoDir == [exists |-> FALSE, files |-> {}]

Dir(files) == [exists |-> TRUE, files |-> files]

\* A file that does not exist; an existing file has a text, and is complete
\* once the write that creates it has ended.
NoFile == [exists |-> FALSE]

File(text, complete) == [exists |-> TRUE, text |-> text, complete |-> complete]

IdleInvocation == [pc |-> "idle"]

\* No installer call is under way.
InstallerIdle ==
  /\ inv = [p \in Invocations |-> IdleInvocation]
  /\ target = <<>>
  /\ tmp = [p \in Invocations |-> NoDir]
  /\ cfgFile = NoFile
  /\ cfgTmp = [p \in Invocations |-> NoFile]
  /\ leaked = {}
  /\ pre = <<>>
  /\ events = <<>>

Unfetched == [tag |-> "Unfetched"]
FetchFailure == [tag |-> "FetchFailed"]

IsManifest(r) == r # Unfetched /\ r # FetchFailure

\* const key = `${res.item.kind}/${res.item.name}`
KeyOf(item) == <<item.kind, item.name>>

Keys == {<<k, n>> : k \in Kinds, n \in Names}

\* Specs named so far: by the caller, or by a manifest already fetched.
MentionedSpecs ==
  Range(specs) \cup
  UNION {Range(registry[s].registryDependencies) :
         s \in {t \in SpecNames : IsManifest(registry[t])}}

UsedNames == {registry[s].name : s \in {t \in SpecNames : IsManifest(registry[t])}}

UsedKinds == {registry[s].kind : s \in {t \in SpecNames : IsManifest(registry[t])}}

\* What the fetcher can answer for spec: the answer it gave before, or, the
\* first time, a fetch error or any manifest (types.ts RegistryItemV1, as far
\* as the resolver reads it).
FetchAnswers(spec) ==
  IF registry[spec] # Unfetched THEN {registry[spec]}
  ELSE {FetchFailure} \cup
       {[kind |-> k, name |-> n, registryDependencies |-> d] :
          k \in UsedKinds \cup Fresh(UsedKinds, KindOrd),
          n \in UsedNames \cup Fresh(UsedNames, NameOrd),
          d \in CanonSeqs(MentionedSpecs, SpecOrd, MaxDeps)}

\* fetchRegistryItemEffect(spec, opts): a parsed manifest plus its provenance,
\* or a fetch error.
fetchRegistryItemEffect(spec, answer) ==
  IF answer = FetchFailure
  THEN [ok |-> FALSE, error |-> FetchFailure]
  ELSE [ok |-> TRUE, value |-> [item |-> answer, source |-> spec]]

dependencyCycle(at) == [tag |-> "DependencyCycle", at |-> at]

InitResolve ==
  /\ registry = [s \in SpecNames |-> Unfetched]
  /\ specs \in CanonSeqs({}, SpecOrd, MaxRoots)
  /\ rootIdx = 1
  /\ stack = <<>>
  /\ map = {}
  /\ visiting = {}
  /\ out = <<>>
  /\ rstatus = "running"
  /\ rerror = NoError
  /\ fetchLog = <<>>
  /\ expanded = <<>>
  /\ InstallerIdle
  /\ JsoncIdle
  /\ CallIdle

\* The spec the next visit() call is made for: the next dependency of the
\* innermost frame, or the next root spec.
HasNext ==
  IF stack = <<>> THEN rootIdx <= Len(specs)
  ELSE stack[Len(stack)].next <= Len(stack[Len(stack)].deps)

NextSpec ==
  IF stack = <<>> THEN specs[rootIdx]
  ELSE stack[Len(stack)].deps[stack[Len(stack)].next]

\* Effect.forEach moves on to the following element.
Advance ==
  IF stack = <<>>
  THEN /\ rootIdx' = rootIdx + 1
       /\ stack' = stack
  ELSE /\ rootIdx' = rootIdx
       /\ stack' = [stack EXCEPT ![Len(stack)].next = @ + 1]

MapHasNever(key) == FALSE

MapHasOrVisiting(key) == (\E e \in map : e.key = key) \/ key \in visiting

\* map.has(key)
MapHas(key) == \E e \in map : e.key = key

\* visiting.has(key)
VisitingHas(key) == key \in visiting

MapSetNot(m, key, res) == m

\* map.set(key, res)
MapSet(m, key, res) == {e \in m : e.key # key} \cup {[key |-> key, res |-> res]}

OutUnshift(o, res) == <<res>> \o o

\* out.push(res)
OutPush(o, res) == Append(o, res)

\* visit(spec): the fetch failed.
VisitFetchFailed ==
  /\ rstatus = "running" /\ HasNext
  /\ \E answer \in FetchAnswers(NextSpec) :
       LET res == fetchRegistryItemEffect(NextSpec, answer) IN
         /\ ~res.ok
         /\ registry' = [registry EXCEPT ![NextSpec] = answer]
         /\ rstatus' = "failing"
         /\ rerror' = res.error
         /\ fetchLog' = Append(fetchLog, [spec |-> NextSpec, ok |-> FALSE])
  /\ UNCHANGED <<ivars, jvars, cvars>>
  /\ UNCHANGED <<specs, rootIdx, stack, map, visiting, out, expanded>>

\* visit(spec): if (map.has(key)) return Effect.void
VisitResolved ==
  /\ rstatus = "running" /\ HasNext
  /\ \E answer \in FetchAnswers(NextSpec) :
       LET res == fetchRegistryItemEffect(NextSpec, answer) IN
         /\ res.ok
         /\ MapHas(KeyOf(res.value.item))
         /\ registry' = [registry EXCEPT ![NextSpec] = answer]
         /\ fetchLog' = Append(fetchLog, [spec |-> NextSpec, ok |-> TRUE,
                                          key |-> KeyOf(res.value.item)])
  /\ Advance
  /\ UNCHANGED <<ivars, jvars, cvars>>
  /\ UNCHANGED <<specs, map, visiting, out, rstatus, rerror, expanded>>

\* visit(spec): if (visiting.has(key)) return Effect.fail(dependencyCycle(key))
VisitCycle ==
  /\ rstatus = "running" /\ HasNext
  /\ \E answer \in FetchAnswers(NextSpec) :
       LET res == fetchRegistryItemEffect(NextSpec, answer) IN
         /\ res.ok
         /\ ~MapHas(KeyOf(res.value.item))
         /\ VisitingHas(KeyOf(res.value.item))
         /\ registry' = [registry EXCEPT ![NextSpec] = answer]
         /\ rstatus' = "failing"
         /\ rerror' = dependencyCycle(KeyOf(res.value.item))
         /\ fetchLog' = Append(fetchLog, [spec |-> NextSpec, ok |-> TRUE,
                                          key |-> KeyOf(res.value.item)])
  /\ UNCHANGED <<ivars, jvars, cvars>>
  /\ UNCHANGED <<specs, rootIdx, stack, map, visiting, out, expanded>>

\* visit(spec): visiting.add(key), then Effect.forEach over the dependencies
\* (res.item.registryDependencies ?? []).
VisitEnter ==
  /\ rstatus = "running" /\ HasNext
  /\ \E answer \in FetchAnswers(NextSpec) :
       LET res == fetchRegistryItemEffect(NextSpec, answer) IN
         /\ res.ok
         /\ ~MapHas(KeyOf(res.value.item))
         /\ ~VisitingHas(KeyOf(res.value.item))
         /\ registry' = [registry EXCEPT ![NextSpec] = answer]
         /\ visiting' = visiting \cup {KeyOf(res.value.item)}
         /\ stack' = Append(stack, [key |-> KeyOf(res.value.item), res |-> res.value,
                                    deps |-> res.value.item.registryDependencies,
                                    next |-> 1])
         /\ fetchLog' = Append(fetchLog, [spec |-> NextSpec, ok |-> TRUE,
                                          key |-> KeyOf(res.value.item)])
         /\ expanded' = Append(expanded, KeyOf(res.value.item))
  /\ UNCHANGED <<ivars, jvars, cvars>>
  /\ UNCHANGED <<specs, rootIdx, map, out, rstatus, rerror>>

\* The forEach over the dependencies ended: visiting.delete(key), then
\* map.set(key, res); out.push(res); the caller's forEach moves on.
VisitExit ==
  /\ rstatus = "running" /\ stack # <<>> /\ ~HasNext
  /\ LET top == stack[Len(stack)]
         rest == SubSeq(stack, 1, Len(stack) - 1) IN
       /\ visiting' = visiting \ {top.key}
       /\ map' = MapSet(map, top.key, top.res)
       /\ out' = OutPush(out, top.res)
       /\ IF rest = <<>>
          THEN /\ rootIdx' = rootIdx + 1
               /\ stack' = rest
          ELSE /\ rootIdx' = rootIdx
               /\ stack' = [rest EXCEPT ![Len(rest)].next = @ + 1]
  /\ UNCHANGED <<ivars, jvars, cvars>>
  /\ UNCHANGED <<registry, specs, rstatus, rerror, fetchLog, expanded>>

VisitUnwindKeeping ==
  /\ rstatus = "failing" /\ stack # <<>>
  /\ stack' = SubSeq(stack, 1, Len(stack) - 1)
  /\ UNCHANGED <<ivars, jvars, cvars>>
  /\ UNCHANGED <<registry, specs, rootIdx, map, visiting, out, rstatus, rerror, fetchLog,
                 expanded>>

\* A failure passes through Effect.ensuring of an enclosing visit:
\* visiting.delete(key), nothing is added to map or out.
VisitUnwind ==
  /\ rstatus = "failing" /\ stack # <<>>
  /\ visiting' = visiting \ {stack[Len(stack)].key}
  /\ stack' = SubSeq(stack, 1, Len(stack) - 1)
  /\ UNCHANGED <<ivars, jvars, cvars>>
  /\ UNCHANGED <<registry, specs, rootIdx, map, out, rstatus, rerror, fetchLog, expanded>>

\* The failure reaches the caller of resolveRegistryTree.
ResolveFail ==
  /\ rstatus = "failing" /\ stack = <<>>
  /\ rstatus' = "err"
  /\ UNCHANGED <<ivars, jvars, cvars>>
  /\ UNCHANGED <<registry, specs, rootIdx, stack, map, visiting, out, rerror,
                 fetchLog, expanded>>

\* The forEach over the root specs ended: Effect.as(out).
ResolveDone ==
  /\ rstatus = "running" /\ stack = <<>> /\ ~HasNext
  /\ rstatus' = "ok"
  /\ UNCHANGED <<ivars, jvars, cvars>>
  /\ UNCHANGED <<registry, specs, rootIdx, stack, map, visiting, out, rerror,
                 fetchLog, expanded>>

\* After a successful call: what the fetcher answers for a spec that a fetched
\* manifest names and that no visit asked for.
FetchUnvisited ==
  /\ rstatus = "ok"
  /\ \E s \in MentionedSpecs :
       /\ registry[s] = Unfetched
       /\ \E answer \in FetchAnswers(s) : registry' = [registry EXCEPT ![s] = answer]
  /\ UNCHANGED <<ivars, jvars, cvars>>
  /\ UNCHANGED <<specs, rootIdx, stack, map, visiting, out, rstatus, rerror,
                 fetchLog, expanded>>

NextResolve ==
  \/ VisitFetchFailed
  \/ VisitResolved
  \/ VisitCycle
  \/ VisitEnter
  \/ VisitExit
  \/ VisitUnwind
  \/ ResolveFail
  \/ ResolveDone
  \/ FetchUnvisited

SpecResolve == InitResolve /\ [][NextResolve]_vars

\* resolveRegistryTree runs the effect to its end: a step that can be taken is
\* taken.
FairSpecResolve == SpecResolve /\ WF_vars(NextResolve)

(***************************************************************************)
(* Installer (install.ts)                                                  *)
(***************************************************************************)
ResolverIdle ==
  /\ registry = [s \in SpecNames |-> Unfetched]
  /\ specs = <<>>
  /\ rootIdx = 1
  /\ stack = <<>>
  /\ map = {}
  /\ visiting = {}
  /\ out = <<>>
  /\ rstatus = "idle"
  /\ rerror = NoError
  /\ fetchLog = <<>>
  /\ expanded = <<>>

PlanIds == {"tool/hello", "agent/rev", "command/fmt", "themes/dark"}

\* The plans planInstalls hands over (types.ts InstallPlan), as far as the
\* installer reads them: the item (named by its kind/name, which fixes
\* item.targetDir), the writes (path relative to targetDir, mode) and the
\* postinstall section.
Plan(id) ==
  CASE id = "tool/hello" ->
         [id |-> id,
          writes |-> <<[rel |-> <<"index.ts">>, mode |-> "0755"],
                       [rel |-> <<"lib", "util.ts">>, mode |-> "none"]>>,
          postinstall |-> [present |-> TRUE, commands |-> <<"bun install", "bun run build">>]]
    [] id = "agent/rev" ->
         [id |-> id,
          writes |-> <<[rel |-> <<"index.ts">>, mode |-> "none"]>>,
          postinstall |-> [present |-> FALSE, commands |-> <<>>]]
    [] id = "command/fmt" ->
         [id |-> id,
          writes |-> <<[rel |-> <<"index.ts">>, mode |-> "0644"]>>,
          postinstall |-> [present |-> TRUE, commands |-> <<>>]]
    [] id = "themes/dark" ->
         [id |-> id,
          writes |-> <<[rel |-> <<"index.ts">>, mode |-> "none"]>>,
          postinstall |-> [present |-> TRUE, commands |-> <<"theme apply">>]]

PlanLists == {q \in SeqsUpTo(PlanIds, MaxPlans) : \A m, n \in 1..Len(q) : q[m] = q[n] => m = n}

\* The files of a plan, complete: what staging builds and the rename promotes.
PlanFiles(id) ==
  {[rel |-> Plan(id).writes[n].rel, data |-> "new",
    mode |-> IF Plan(id).writes[n].mode = "none" THEN "default" ELSE Plan(id).writes[n].mode] :
     n \in 1..Len(Plan(id).writes)}

\* A directory left by an earlier installation of another version.
OldFiles ==
  {[rel |-> <<"index.ts">>, data |-> "old", mode |-> "default"],
   [rel |-> <<"stale.ts">>, data |-> "old", mode |-> "default"]}

\* Config texts: a text the JSONC patcher rejects, or a document with the
\* registrations under ocx.items (item -> value).
BadText == [bad |-> TRUE, items |-> {}]

Doc(items) == [bad |-> FALSE, items |-> items]

PreConfigs ==
  {NoFile,
   File(BadText, TRUE),
   File(Doc({}), TRUE),
   File(Doc({<<"tool/hello", "prior">>, <<"agent/old", "prior">>}), TRUE)}

noPlans == [tag |-> "NoPlans"]

targetAlreadyExists(path) == [tag |-> "TargetAlreadyExists", path |-> path]

ioError(operation, path) == [tag |-> "IOError", operation |-> operation, path |-> path]

postinstallFailed(cmd, code) == [tag |-> "PostinstallFailed", cmd |-> cmd, code |-> code]

jsoncError == [tag |-> "JSONCError"]

missingConfigRoot == [tag |-> "MissingConfigRoot"]

\* plan.configRoot: the config root whose config file is cfgFile, another
\* one, or undefined. The plans of planInstalls all have the one it was
\* called with.
ConfigRootIds == {"root", "other"}

NoRoot == "undefined"

NewInvocation(plans, overwrite, allowPostinstall, pc) ==
  [pc |-> pc, plans |-> plans, roots |-> [n \in 1..Len(plans) |-> "root"],
   overwrite |-> overwrite,
   allowPostinstall |-> allowPostinstall,
   i |-> 1, w |-> 1, c |-> 1,
   err |-> NoError, result |-> [tag |-> "none"],
   wrote |-> <<>>, updated |-> Doc({}), ran |-> FALSE]

Init ==
  /\ \E pl \in PlanLists, ow \in BOOLEAN, ap \in BOOLEAN :
       inv = [p \in Invocations |->
                IF p = "a" THEN NewInvocation(pl, ow, ap, "start") ELSE IdleInvocation]
  /\ target \in [PlanIds -> {NoDir, Dir(OldFiles)} \cup {Dir(PlanFiles(id)) : id \in PlanIds}]
  /\ \A id \in PlanIds :
       /\ id \notin Range(inv["a"].plans) => target[id] = NoDir
       /\ target[id] \in {NoDir, Dir(OldFiles), Dir(PlanFiles(id))}
  /\ tmp = [p \in Invocations |-> NoDir]
  /\ cfgFile \in PreConfigs
  /\ cfgTmp = [p \in Invocations |-> NoFile]
  /\ leaked = {}
  /\ pre = [target |-> target, cfgFile |-> cfgFile]
  /\ events = <<>>
  /\ ResolverIdle
  /\ JsoncIdle
  /\ CallIdle

CurPlan(p) == Plan(inv[p].plans[inv[p].i])

CurWrite(p) == CurPlan(p).writes[inv[p].w]

\* The effect fails outside any withTmpDirEffect scope.
Failed(me, e) == [me EXCEPT !.pc = "failed", !.result = [tag |-> "err", error |-> e]]

FailedRightAway(me, e, releasePc) == Failed(me, e)

\* The effect fails inside a withTmpDirEffect scope: the release runs first.
FailedIn(me, e, releasePc) == [me EXCEPT !.pc = releasePc, !.err = e]

\* The first plan's config root taken for present whatever it is.
BeginUnchecked(p) ==
  /\ inv[p].pc = "start"
  /\ inv' = [inv EXCEPT ![p] =
       IF Len(@.plans) = 0 THEN Failed(@, noPlans) ELSE [@ EXCEPT !.pc = "mkdirRoot"]]
  /\ UNCHANGED <<target, tmp, cfgFile, cfgTmp, leaked, pre, events>>
  /\ UNCHANGED <<rvars, jvars, cvars>>

\* applyInstallPlansEffect: const root = plans[0]?.configRoot;
\* if (plans.length === 0) return Effect.fail(noPlans());
\* if (!root) return Effect.fail(missingConfigRoot())
Begin(p) ==
  /\ inv[p].pc = "start"
  /\ inv' = [inv EXCEPT ![p] =
       IF Len(@.plans) = 0 THEN Failed(@, noPlans)
       ELSE IF @.roots[1] = NoRoot THEN Failed(@, missingConfigRoot)
       ELSE [@ EXCEPT !.pc = "mkdirRoot"]]
  /\ UNCHANGED <<target, tmp, cfgFile, cfgTmp, leaked, pre, events>>
  /\ UNCHANGED <<rvars, jvars, cvars>>

\* yield* mkdirEffect(root.opencodeDir)
MkdirRoot(p) ==
  /\ inv[p].pc = "mkdirRoot"
  /\ \E done \in BOOLEAN :
       inv' = [inv EXCEPT ![p] =
         IF done THEN [@ EXCEPT !.pc = "stageMkdir"]
         ELSE Failed(@, ioError("mkdir", "opencodeDir"))]
  /\ UNCHANGED <<target, tmp, cfgFile, cfgTmp, leaked, pre, events>>
  /\ UNCHANGED <<rvars, jvars, cvars>>

\* stageDirEffect: mkdirEffect(path.dirname(plan.item.targetDir))
StageMkdir(p) ==
  /\ inv[p].pc = "stageMkdir"
  /\ \E done \in BOOLEAN :
       inv' = [inv EXCEPT ![p] =
         IF done THEN [@ EXCEPT !.pc = "mkdtemp"]
         ELSE Failed(@, ioError("mkdir", CurPlan(p).id))]
  /\ UNCHANGED <<target, tmp, cfgFile, cfgTmp, leaked, pre, events>>
  /\ UNCHANGED <<rvars, jvars, cvars>>

\* withTmpDirEffect: acquire, mkdtempEffect(path.join(parent, prefix))
StageMkdtemp(p) ==
  /\ inv[p].pc = "mkdtemp"
  /\ \E done \in BOOLEAN :
       IF done
       THEN /\ tmp' = [tmp EXCEPT ![p] = Dir({})]
            /\ inv' = [inv EXCEPT ![p] =
                 [@ EXCEPT !.w = 1,
                           !.pc = IF Len(CurPlan(p).writes) = 0 THEN "exists" ELSE "writeMkdir"]]
       ELSE /\ tmp' = tmp
            /\ inv' = [inv EXCEPT ![p] = Failed(@, ioError("mkdtemp", CurPlan(p).id))]
  /\ UNCHANGED <<target, cfgFile, cfgTmp, leaked, pre, events>>
  /\ UNCHANGED <<rvars, jvars, cvars>>

\* Path segments whose text starts with two dots.
DotDotSegments == {"..", "..foo"}

\* rel.startsWith("..") || path.isAbsolute(rel), rel = path.relative(
\* plan.item.targetDir, w.path) given as its segments.
EscapesTarget(rel) == rel[1] \in DotDotSegments \/ rel[1] = ""

writeOutsideTargetDir(path) == [tag |-> "WriteOutsideTargetDir", path |-> path]

\* for (const w of plan.writes): the containment check, then
\* mkdirEffect(path.dirname(dest))
StageWriteMkdir(p) ==
  /\ inv[p].pc = "writeMkdir"
  /\ \E done \in BOOLEAN :
       inv' = [inv EXCEPT ![p] =
         IF EscapesTarget(CurWrite(p).rel)
         THEN FailedIn(@, writeOutsideTargetDir(CurWrite(p).rel), "release")
         ELSE IF done THEN [@ EXCEPT !.pc = "write"]
         ELSE FailedIn(@, ioError("mkdir", CurWrite(p).rel), "release")]
  /\ UNCHANGED <<target, tmp, cfgFile, cfgTmp, leaked, pre, events>>
  /\ UNCHANGED <<rvars, jvars, cvars>>

AfterWriteOnce(me, nwrites) == [me EXCEPT !.w = @ + 1, !.pc = "exists"]

\* The position after a write (and its chmod) ended: the next write, or the
\* existence check.
AfterWrite(me, nwrites) ==
  [me EXCEPT !.w = @ + 1, !.pc = IF me.w + 1 > nwrites THEN "exists" ELSE "writeMkdir"]

\* Where bunWriteEffect(dest, w.content) of staging puts the file: inside
\* the temporary directory.
StagedInto(p, files) ==
  /\ tmp' = [tmp EXCEPT ![p].files = @ \cup files]
  /\ target' = target

\* yield* bunWriteEffect(dest, w.content), dest = path.join(tmp, rel)
StageWrite(p) ==
  /\ inv[p].pc = "write"
  /\ \E done \in BOOLEAN, partial \in BOOLEAN :
       IF done
       THEN /\ StagedInto(p, {[rel |-> CurWrite(p).rel, data |-> "new", mode |-> "default"]})
            /\ inv' = [inv EXCEPT ![p] =
                 IF CurWrite(p).mode # "none" THEN [@ EXCEPT !.pc = "chmod"]
                 ELSE AfterWrite(@, Len(CurPlan(p).writes))]
       ELSE /\ StagedInto(p, IF partial
                             THEN {[rel |-> CurWrite(p).rel, data |-> "partial", mode |-> "default"]}
                             ELSE {})
            /\ inv' = [inv EXCEPT ![p] = FailedIn(@, ioError("write", CurWrite(p).rel), "release")]
  /\ UNCHANGED <<cfgFile, cfgTmp, leaked, pre, events>>
  /\ UNCHANGED <<rvars, jvars, cvars>>

\* if (w.mode) yield* chmodEffect(dest, toMode(w.mode))
StageChmod(p) ==
  /\ inv[p].pc = "chmod"
  /\ \E done \in BOOLEAN :
       IF done
       THEN /\ tmp' = [tmp EXCEPT ![p].files =
                 {IF f.rel = CurWrite(p).rel THEN [f EXCEPT !.mode = CurWrite(p).mode] ELSE f :
                    f \in @}]
            /\ inv' = [inv EXCEPT ![p] = AfterWrite(@, Len(CurPlan(p).writes))]
       ELSE /\ tmp' = tmp
            /\ inv' = [inv EXCEPT ![p] = FailedIn(@, ioError("chmod", CurWrite(p).rel), "release")]
  /\ UNCHANGED <<target, cfgFile, cfgTmp, leaked, pre, events>>
  /\ UNCHANGED <<rvars, jvars, cvars>>

StageExistsOverwriting(p) ==
  /\ inv[p].pc = "exists"
  /\ inv' = [inv EXCEPT ![p] =
       IF target[CurPlan(p).id].exists THEN [@ EXCEPT !.pc = "rm"]
       ELSE [@ EXCEPT !.pc = "rename"]]
  /\ UNCHANGED <<target, tmp, cfgFile, cfgTmp, leaked, pre, events>>
  /\ UNCHANGED <<rvars, jvars, cvars>>

StageExistsStrict(p) ==
  /\ inv[p].pc = "exists"
  /\ inv' = [inv EXCEPT ![p] =
       IF target[CurPlan(p).id].exists
       THEN FailedIn(@, targetAlreadyExists(CurPlan(p).id), "release")
       ELSE [@ EXCEPT !.pc = "rename"]]
  /\ UNCHANGED <<target, tmp, cfgFile, cfgTmp, leaked, pre, events>>
  /\ UNCHANGED <<rvars, jvars, cvars>>

\* const exists = yield* pathExistsEffect(plan.item.targetDir), and the two
\* tests on it.
StageExists(p) ==
  /\ inv[p].pc = "exists"
  /\ inv' = [inv EXCEPT ![p] =
       IF target[CurPlan(p).id].exists /\ ~@.overwrite
       THEN FailedIn(@, targetAlreadyExists(CurPlan(p).id), "release")
       ELSE IF target[CurPlan(p).id].exists /\ @.overwrite
       THEN [@ EXCEPT !.pc = "rm"]
       ELSE [@ EXCEPT !.pc = "rename"]]
  /\ UNCHANGED <<target, tmp, cfgFile, cfgTmp, leaked, pre, events>>
  /\ UNCHANGED <<rvars, jvars, cvars>>

\* yield* rmEffect(plan.item.targetDir): rm(p, {recursive, force}) unlinks the
\* entries of the directory one by one ...
StageRmUnlink(p) ==
  /\ inv[p].pc = "rm"
  /\ \E f \in target[CurPlan(p).id].files :
       target' = [target EXCEPT ![CurPlan(p).id].files = @ \ {f}]
  /\ UNCHANGED <<inv, tmp, cfgFile, cfgTmp, leaked, pre, events>>
  /\ UNCHANGED <<rvars, jvars, cvars>>

\* ... then removes the directory itself ...
StageRmRmdir(p) ==
  /\ inv[p].pc = "rm"
  /\ target[CurPlan(p).id].files = {}
  /\ target' = [target EXCEPT ![CurPlan(p).id] = NoDir]
  /\ inv' = [inv EXCEPT ![p].pc = "rename"]
  /\ UNCHANGED <<tmp, cfgFile, cfgTmp, leaked, pre, events>>
  /\ UNCHANGED <<rvars, jvars, cvars>>

\* ... and can fail at any of these points.
StageRmFail(p) ==
  /\ inv[p].pc = "rm"
  /\ inv' = [inv EXCEPT ![p] = FailedIn(@, ioError("rm", CurPlan(p).id), "release")]
  /\ UNCHANGED <<target, tmp, cfgFile, cfgTmp, leaked, pre, events>>
  /\ UNCHANGED <<rvars, jvars, cvars>>

\* yield* renameEffect(tmp, plan.item.targetDir): rename(2) of a directory
\* replaces nothing but an empty directory.
StageRename(p) ==
  /\ inv[p].pc = "rename"
  /\ \E done \in BOOLEAN :
       IF done /\ target[CurPlan(p).id].files = {}
       THEN /\ target' = [target EXCEPT ![CurPlan(p).id] = Dir(tmp[p].files)]
            /\ tmp' = [tmp EXCEPT ![p] = NoDir]
            /\ events' = Append(events, [kind |-> "promote", inv |-> p, id |-> CurPlan(p).id])
            /\ inv' = [inv EXCEPT ![p].pc = "release"]
       ELSE /\ UNCHANGED <<target, tmp, events>>
            /\ inv' = [inv EXCEPT ![p] = FailedIn(@, ioError("rename", CurPlan(p).id), "release")]
  /\ UNCHANGED <<cfgFile, cfgTmp, leaked, pre>>
  /\ UNCHANGED <<rvars, jvars, cvars>>

StageReleaseEarly(p) ==
  /\ inv[p].pc = "release"
  /\ \E done \in BOOLEAN :
       /\ tmp' = [tmp EXCEPT ![p] = NoDir]
       /\ leaked' = IF done \/ ~tmp[p].exists THEN leaked ELSE leaked \cup {p}
  /\ inv' = [inv EXCEPT ![p] =
       IF @.err # NoError THEN Failed(@, @.err)
       ELSE [@ EXCEPT !.wrote = Append(@, CurPlan(p).id),
                      !.i = @ + 1,
                      !.pc = "cfgMkdir"]]
  /\ UNCHANGED <<target, cfgFile, cfgTmp, pre, events>>
  /\ UNCHANGED <<rvars, jvars, cvars>>

\* withTmpDirEffect: release, rmEffect(tmp).pipe(Effect.catchAll(() =>
\* Effect.void)); then the failure of the scope, if any, goes on; else
\* wrote.push(dir) and the next plan.
StageRelease(p) ==
  /\ inv[p].pc = "release"
  /\ \E done \in BOOLEAN :
       /\ tmp' = [tmp EXCEPT ![p] = NoDir]
       /\ leaked' = IF done \/ ~tmp[p].exists THEN leaked ELSE leaked \cup {p}
  /\ inv' = [inv EXCEPT ![p] =
       IF @.err # NoError THEN Failed(@, @.err)
       ELSE [@ EXCEPT !.wrote = Append(@, CurPlan(p).id),
                      !.i = @ + 1,
                      !.pc = IF inv[p].i + 1 > Len(inv[p].plans) THEN "cfgMkdir" ELSE "stageMkdir"]]
  /\ UNCHANGED <<target, cfgFile, cfgTmp, pre, events>>
  /\ UNCHANGED <<rvars, jvars, cvars>>

\* What reading the config file gives: Bun.file(configPath).text().catch(() =>
\* "{}"). A file caught in the middle of a write reads as a truncated text.
ReadConfig(file, readable) ==
  IF ~file.exists \/ ~readable THEN Doc({})
  ELSE IF file.complete THEN file.text
  ELSE BadText

\* parseExistingOCXManagedConfigEffect(text)
parseExistingOCXManagedConfigEffect(text) ==
  IF text.bad THEN [ok |-> FALSE, error |-> jsoncError]
  ELSE [ok |-> TRUE, value |-> text.items]

\* for (const plan of plans) cfg.items[kind][name] = {source, dir, entry, ...}
RECURSIVE PatchItems(_, _)
PatchItems(items, plans) ==
  IF plans = <<>> THEN items
  ELSE PatchItems({e \in items : e[1] # Head(plans)} \cup {<<Head(plans), "plan">>},
                  Tail(plans))

\* upsertTopLevelJsoncProperty(text, "ocx", cfg), on the config texts of the
\* installer: rejected texts and the registrations under ocx.items.
UpsertOcx(text, cfg) ==
  IF text.bad THEN [ok |-> FALSE, error |-> jsoncError]
  ELSE [ok |-> TRUE, value |-> Doc(cfg)]

\* yield* mkdirEffect(path.dirname(root.configPath))
CfgMkdir(p) ==
  /\ inv[p].pc = "cfgMkdir"
  /\ \E done \in BOOLEAN :
       inv' = [inv EXCEPT ![p] =
         IF done THEN [@ EXCEPT !.pc = "cfgRead"]
         ELSE Failed(@, ioError("mkdir", "configDir"))]
  /\ UNCHANGED <<target, tmp, cfgFile, cfgTmp, leaked, pre, events>>
  /\ UNCHANGED <<rvars, jvars, cvars>>

\* updateConfigEffect: read the text, parse the managed section, patch it for
\* every plan, upsert it into the text.
CfgRead(p) ==
  /\ inv[p].pc = "cfgRead"
  /\ \E readable \in BOOLEAN :
       LET text == ReadConfig(cfgFile, readable)
           cfg == parseExistingOCXManagedConfigEffect(text)
           updated == UpsertOcx(text, PatchItems(cfg.value, inv[p].plans))
       IN inv' = [inv EXCEPT ![p] =
            IF ~cfg.ok THEN Failed(@, cfg.error)
            ELSE IF ~updated.ok THEN Failed(@, updated.error)
            ELSE [@ EXCEPT !.updated = updated.value, !.pc = "waMkdir"]]
  /\ UNCHANGED <<target, tmp, cfgFile, cfgTmp, leaked, pre, events>>
  /\ UNCHANGED <<rvars, jvars, cvars>>

\* writeAtomicEffect: mkdirEffect(dir)
WaMkdir(p) ==
  /\ inv[p].pc = "waMkdir"
  /\ \E done \in BOOLEAN :
       inv' = [inv EXCEPT ![p] =
         IF done THEN [@ EXCEPT !.pc = "waMkdtemp"]
         ELSE Failed(@, ioError("mkdir", "configDir"))]
  /\ UNCHANGED <<target, tmp, cfgFile, cfgTmp, leaked, pre, events>>
  /\ UNCHANGED <<rvars, jvars, cvars>>

\* writeAtomicEffect: withTmpDirEffect(dir, `.tmp-ocx-${Date.now()}-`, ...),
\* acquire
WaMkdtemp(p) ==
  /\ inv[p].pc = "waMkdtemp"
  /\ \E done \in BOOLEAN :
       IF done
       THEN /\ tmp' = [tmp EXCEPT ![p] = Dir({})]
            /\ inv' = [inv EXCEPT ![p].pc = "waWrite"]
       ELSE /\ tmp' = tmp
            /\ inv' = [inv EXCEPT ![p] = Failed(@, ioError("mkdtemp", "configDir"))]
  /\ UNCHANGED <<target, cfgFile, cfgTmp, leaked, pre, events>>
  /\ UNCHANGED <<rvars, jvars, cvars>>

WaWriteInPlace(p) ==
  /\ inv[p].pc = "waWrite"
  /\ cfgFile' = File(inv[p].updated, FALSE)
  /\ cfgTmp' = [cfgTmp EXCEPT ![p] = File(inv[p].updated, FALSE)]
  /\ inv' = [inv EXCEPT ![p].pc = "waWriting"]
  /\ UNCHANGED <<target, tmp, leaked, pre, events>>
  /\ UNCHANGED <<rvars, jvars, cvars>>

\* bunWriteEffect(file, content), file = path.join(tmp, "file"): the file is
\* created and filled ...
WaWriteBegin(p) ==
  /\ inv[p].pc = "waWrite"
  /\ cfgTmp' = [cfgTmp EXCEPT ![p] = File(inv[p].updated, FALSE)]
  /\ inv' = [inv EXCEPT ![p].pc = "waWriting"]
  /\ UNCHANGED <<target, tmp, cfgFile, leaked, pre, events>>
  /\ UNCHANGED <<rvars, jvars, cvars>>

\* ... until the write ends, with the whole content or with a failure.
WaWriteEnd(p) ==
  /\ inv[p].pc = "waWriting"
  /\ \E done \in BOOLEAN :
       IF done
       THEN /\ cfgTmp' = [cfgTmp EXCEPT ![p].complete = TRUE]
            /\ inv' = [inv EXCEPT ![p].pc = "waRename"]
       ELSE /\ cfgTmp' = cfgTmp
            /\ inv' = [inv EXCEPT ![p] = FailedIn(@, ioError("write", "configTmp"), "waRelease")]
  /\ UNCHANGED <<target, tmp, cfgFile, leaked, pre, events>>
  /\ UNCHANGED <<rvars, jvars, cvars>>

\* renameEffect(file, dest)
WaRename(p) ==
  /\ inv[p].pc = "waRename"
  /\ \E done \in BOOLEAN :
       IF done
       THEN /\ cfgFile' = cfgTmp[p]
            /\ cfgTmp' = [cfgTmp EXCEPT ![p] = NoFile]
            /\ events' = Append(events, [kind |-> "config", inv |-> p])
            /\ inv' = [inv EXCEPT ![p].pc = "waRelease"]
       ELSE /\ UNCHANGED <<cfgFile, cfgTmp, events>>
            /\ inv' = [inv EXCEPT ![p] = FailedIn(@, ioError("rename", "configPath"), "waRelease")]
  /\ UNCHANGED <<target, tmp, leaked, pre>>
  /\ UNCHANGED <<rvars, jvars, cvars>>

\* withTmpDirEffect: release, for the directory of writeAtomicEffect.
WaRelease(p) ==
  /\ inv[p].pc = "waRelease"
  /\ \E done \in BOOLEAN :
       /\ tmp' = [tmp EXCEPT ![p] = NoDir]
       /\ cfgTmp' = [cfgTmp EXCEPT ![p] = NoFile]
       /\ leaked' = IF done THEN leaked ELSE leaked \cup {p}
  /\ inv' = [inv EXCEPT ![p] =
       IF @.err # NoError THEN Failed(@, @.err)
       ELSE [@ EXCEPT !.pc = "post", !.i = 1]]
  /\ UNCHANGED <<target, cfgFile, pre, events>>
  /\ UNCHANGED <<rvars, jvars, cvars>>

PostPlanAlways(p) ==
  /\ inv[p].pc = "post"
  /\ inv[p].i <= Len(inv[p].plans)
  /\ inv' = [inv EXCEPT ![p] =
       IF ~CurPlan(p).postinstall.present THEN [@ EXCEPT !.i = @ + 1]
       ELSE [@ EXCEPT !.ran = TRUE, !.c = 1, !.pc = "spawn"]]
  /\ UNCHANGED <<target, tmp, cfgFile, cfgTmp, leaked, pre, events>>
  /\ UNCHANGED <<rvars, jvars, cvars>>

\* if (opts.allowPostinstall) for (const plan of plans): a plan without
\* postinstall is passed over, for another one ran = true and
\* runPostinstallEffect(plan) starts.
PostPlan(p) ==
  /\ inv[p].pc = "post"
  /\ inv[p].allowPostinstall
  /\ inv[p].i <= Len(inv[p].plans)
  /\ inv' = [inv EXCEPT ![p] =
       IF ~CurPlan(p).postinstall.present THEN [@ EXCEPT !.i = @ + 1]
       ELSE [@ EXCEPT !.ran = TRUE, !.c = 1, !.pc = "spawn"]]
  /\ UNCHANGED <<target, tmp, cfgFile, cfgTmp, leaked, pre, events>>
  /\ UNCHANGED <<rvars, jvars, cvars>>

\* runPostinstallEffect: Bun.spawn({cmd: ["bash", "-lc", cmd], ...}) of the
\* next command; a spawn that throws is ioError("postinstall", cause).
PostSpawn(p) ==
  /\ inv[p].pc = "spawn"
  /\ inv[p].c <= Len(CurPlan(p).postinstall.commands)
  /\ \E thrown \in BOOLEAN :
       LET cmd == CurPlan(p).postinstall.commands[inv[p].c] IN
         IF thrown
         THEN /\ events' = events
              /\ inv' = [inv EXCEPT ![p] = Failed(@, ioError("postinstall", cmd))]
         ELSE /\ events' = Append(events, [kind |-> "spawn", inv |-> p, cmd |-> cmd])
              /\ inv' = [inv EXCEPT ![p].pc = "exited"]
  /\ UNCHANGED <<target, tmp, cfgFile, cfgTmp, leaked, pre>>
  /\ UNCHANGED <<rvars, jvars, cvars>>

PostExitIgnoring(p) ==
  /\ inv[p].pc = "exited"
  /\ \E code \in {0, 1} :
       LET cmd == CurPlan(p).postinstall.commands[inv[p].c] IN
         /\ events' = Append(events, [kind |-> "exit", inv |-> p, cmd |-> cmd, code |-> code])
         /\ inv' = [inv EXCEPT ![p] = [@ EXCEPT !.c = @ + 1, !.pc = "spawn"]]
  /\ UNCHANGED <<target, tmp, cfgFile, cfgTmp, leaked, pre>>
  /\ UNCHANGED <<rvars, jvars, cvars>>

\* return await proc.exited, then: if (code === 0) return Effect.void; return
\* Effect.fail(postinstallFailed(cmd, code))
PostExit(p) ==
  /\ inv[p].pc = "exited"
  /\ \E code \in {0, 1} :
       LET cmd == CurPlan(p).postinstall.commands[inv[p].c] IN
         /\ events' = Append(events, [kind |-> "exit", inv |-> p, cmd |-> cmd, code |-> code])
         /\ inv' = [inv EXCEPT ![p] =
              IF code = 0 THEN [@ EXCEPT !.c = @ + 1, !.pc = "spawn"]
              ELSE Failed(@, postinstallFailed(cmd, code))]
  /\ UNCHANGED <<target, tmp, cfgFile, cfgTmp, leaked, pre>>
  /\ UNCHANGED <<rvars, jvars, cvars>>

\* runPostinstallEffect ended: the commands of the plan all exited with 0.
PostPlanDone(p) ==
  /\ inv[p].pc = "spawn"
  /\ inv[p].c > Len(CurPlan(p).postinstall.commands)
  /\ inv' = [inv EXCEPT ![p] = [@ EXCEPT !.pc = "post", !.i = @ + 1]]
  /\ UNCHANGED <<target, tmp, cfgFile, cfgTmp, leaked, pre, events>>
  /\ UNCHANGED <<rvars, jvars, cvars>>

\* return {wroteFiles: wrote, editedConfigPath: root.configPath,
\*         ranPostinstall: ran}
Done(p) ==
  /\ inv[p].pc = "post"
  /\ ~inv[p].allowPostinstall \/ inv[p].i > Len(inv[p].plans)
  /\ inv' = [inv EXCEPT ![p] =
       [@ EXCEPT !.pc = "done",
                 !.result = [tag |-> "ok", wroteFiles |-> inv[p].wrote,
                             ranPostinstall |-> inv[p].ran]]]
  /\ UNCHANGED <<target, tmp, cfgFile, cfgTmp, leaked, pre, events>>
  /\ UNCHANGED <<rvars, jvars, cvars>>

\* stageDirEffect, for the plans in turn
Stage(p) ==
  \/ StageMkdir(p)
  \/ StageMkdtemp(p)
  \/ StageWriteMkdir(p)
  \/ StageWrite(p)
  \/ StageChmod(p)
  \/ StageExists(p)
  \/ StageRmUnlink(p)
  \/ StageRmRmdir(p)
  \/ StageRmFail(p)
  \/ StageRename(p)
  \/ StageRelease(p)

\* mkdirEffect(path.dirname(root.configPath)), then updateConfigEffect
UpdateConfig(p) ==
  \/ CfgMkdir(p)
  \/ CfgRead(p)
  \/ WaMkdir(p)
  \/ WaMkdtemp(p)
  \/ WaWriteBegin(p)
  \/ WaWriteEnd(p)
  \/ WaRename(p)
  \/ WaRelease(p)

Postinstall(p) ==
  \/ PostPlan(p)
  \/ PostSpawn(p)
  \/ PostExit(p)
  \/ PostPlanDone(p)
  \/ Done(p)

Next ==
  \E p \in Invocations :
    \/ Begin(p)
    \/ MkdirRoot(p)
    \/ Stage(p)
    \/ UpdateConfig(p)
    \/ Postinstall(p)

Spec == Init /\ [][Next]_vars

\* Two calls of applyInstallPlans at the same time on one config root (two
\* ocx processes), each with one plan, of the same item or of two items, and
\* without postinstall commands.
InitConc ==
  /\ \E pa \in {"agent/rev", "command/fmt"}, pb \in {"command/fmt"}, ow \in BOOLEAN :
       inv = [p \in Invocations |->
                NewInvocation(IF p = "a" THEN <<pa>> ELSE <<pb>>, ow, FALSE, "start")]
  /\ target \in [PlanIds -> {NoDir, Dir(OldFiles)}]
  /\ \A id \in PlanIds :
       id \notin Range(inv["a"].plans) \cup Range(inv["b"].plans) => target[id] = NoDir
  /\ tmp = [p \in Invocations |-> NoDir]
  /\ cfgFile \in PreConfigs
  /\ cfgTmp = [p \in Invocations |-> NoFile]
  /\ leaked = {}
  /\ pre = [target |-> target, cfgFile |-> cfgFile]
  /\ events = <<>>
  /\ ResolverIdle
  /\ JsoncIdle
  /\ CallIdle

NextConc ==
  \E p \in Invocations :
    \/ Begin(p)
    \/ MkdirRoot(p)
    \/ Stage(p)
    \/ UpdateConfig(p)
    \/ Done(p)

SpecConc == InitConc /\ [][NextConc]_vars

\* A call of applyInstallPlans with plans of any config roots; when the call
\* is interrupted after the promotion of its last plan and before the rename
\* of the config file, the same call is made once more.
RootLists(plans) ==
  {roots \in [1..Len(plans) -> ConfigRootIds \cup {NoRoot}] :
     Len(plans) > 0 => roots[1] # "other"}

InitRerun ==
  /\ \E pl \in {q \in PlanLists : Range(q) \subseteq {"command/fmt", "themes/dark"}},
        ow \in BOOLEAN, ap \in BOOLEAN :
       \E roots \in RootLists(pl) :
         inv = [p \in Invocations |->
                  IF p = "a" THEN [NewInvocation(pl, ow, ap, "start") EXCEPT !.roots = roots]
                  ELSE IdleInvocation]
  /\ target \in [PlanIds -> {NoDir, Dir(OldFiles)}]
  /\ \A id \in PlanIds : id \notin Range(inv["a"].plans) => target[id] = NoDir
  /\ tmp = [p \in Invocations |-> NoDir]
  /\ cfgFile \in PreConfigs
  /\ cfgTmp = [p \in Invocations |-> NoFile]
  /\ leaked = {}
  /\ pre = [target |-> target, cfgFile |-> cfgFile]
  /\ events = <<>>
  /\ ResolverIdle
  /\ JsoncIdle
  /\ CallIdle

\* Every plan of the call is promoted and the config file is not yet renamed.
Interruptible(me) ==
  \/ me.pc \in {"cfgMkdir", "cfgRead", "waMkdir", "waMkdtemp", "waWrite", "waWriting",
                "waRename"}
  \/ me.pc = "release" /\ me.i = Len(me.plans) /\ me.err = NoError

\* The process of the call ends there: no finalizer runs, what it had in its
\* temporary directories stays.
Crash ==
  /\ Interruptible(inv["a"])
  /\ inv["b"].pc = "idle"
  /\ inv' = [inv EXCEPT !["a"].pc = "crashed"]
  /\ UNCHANGED <<target, tmp, cfgFile, cfgTmp, leaked, pre, events>>
  /\ UNCHANGED <<rvars, jvars, cvars>>

\* applyInstallPlans once more, with the same plans and the same options.
Rerun ==
  /\ inv["a"].pc = "crashed"
  /\ inv["b"].pc = "idle"
  /\ inv' = [inv EXCEPT !["b"] =
       [NewInvocation(inv["a"].plans, inv["a"].overwrite, inv["a"].allowPostinstall,
                      "start") EXCEPT !.roots = inv["a"].roots]]
  /\ UNCHANGED <<target, tmp, cfgFile, cfgTmp, leaked, pre, events>>
  /\ UNCHANGED <<rvars, jvars, cvars>>

NextRerun ==
  \/ Next
  \/ Crash
  \/ Rerun

SpecRerun == InitRerun /\ [][NextRerun]_vars

(***************************************************************************)
(* JSONC patcher (jsonc.ts)                                                *)
(*                                                                         *)
(* A text is a sequence of characters (strings of length one); positions   *)
(* are counted from 0 as in the source.                                    *)
(***************************************************************************)
\* text[i] ?? ""
Ch(text, i) == IF i >= 0 /\ i < Len(text) THEN text[i + 1] ELSE ""

\* text.slice(a, b)
Slice(text, a, b) == SubSeq(text, a + 1, IF b > Len(text) THEN Len(text) ELSE b)

Ok(v) == [ok |-> TRUE, value |-> v]

\* fail(message)
Fail == [ok |-> FALSE, error |-> jsoncError]

isWhitespace(ch) == ch \in {" ", "\t", "\n", "\r"}

isQuote(ch) == ch \in {"\"", "'"}

\* The first and the last of a set of positions.
Least(S, otherwise) == IF S = {} THEN otherwise ELSE CHOOSE j \in S : \A k \in S : j <= k

Greatest(S, otherwise) == IF S = {} THEN otherwise ELSE CHOOSE j \in S : \A k \in S : j >= k

\* The first position from..to where P holds, looked for nearby first.
First(P(_), from, to, otherwise) ==
  LET Near(S) ==
        IF S # {} THEN Least(S, otherwise)
        ELSE Least({j \in (from + 8)..to : P(j)}, otherwise)
  IN Near({j \in from..(IF from + 7 < to THEN from + 7 ELSE to) : P(j)})

\* skip: the inner loops, run to their ends in one step. The first stops at
\* the line feed that ends a line comment, the second after the */ that ends
\* a block comment, both at the end of the text when there is none.
SkipLine(text, i) == First(LAMBDA j : Ch(text, j) = "\n", i, Len(text) - 1, Len(text))

SkipBlock(text, i) ==
  First(LAMBDA j : Ch(text, j - 2) = "*" /\ Ch(text, j - 1) = "/", i + 2, Len(text), Len(text))

\* skip(text, start): whitespace is passed in one step.
RECURSIVE skip(_, _)
skip(text, start) ==
  LET At(i) ==
        IF i >= Len(text) THEN Len(text)
        ELSE IF Ch(text, i) = "/" /\ Ch(text, i + 1) = "/"
             THEN skip(text, SkipLine(text, i + 2))
        ELSE IF Ch(text, i) = "/" /\ Ch(text, i + 1) = "*"
             THEN skip(text, SkipBlock(text, i + 2))
        ELSE i
  IN At(First(LAMBDA j : ~isWhitespace(Ch(text, j)), start, Len(text) - 1, Len(text)))

\* The head of the loop body shared by findClose, findValueEnd and
\* lastSignificantChar keeps a state (createState): in a line comment, in a
\* block comment, in a string (escaped or not), or none of these. Outside
\* strings and comments, Opens tells that the character at i starts one; the
\* three operators after it give the position where the loop is outside
\* again.
Opens(text, i) ==
  \/ Ch(text, i) = "/" /\ Ch(text, i + 1) \in {"/", "*"}
  \/ isQuote(Ch(text, i))

\* inLineComment: cleared by the line feed, which the loop passes as well.
LineCommentEnd(text, i) ==
  LET e == SkipLine(text, i) IN IF e < Len(text) THEN e + 1 ELSE e

\* inBlockComment: cleared by */, two characters.
BlockCommentEnd(text, i) == SkipBlock(text, i)

\* inString: a backslash sets escaped and the character after it clears it,
\* so the quote that ends the string is the first one with an even number of
\* backslashes between it and the last other character.
\* A scanner that does not keep the string state: what follows the opening
\* quote is read as structure.
StringEndUnaware(text, i, quote) == i

StringEnd(text, i, quote) ==
  LET escaped(j) ==
        (j - 1 - Greatest({k \in i..(j - 1) : Ch(text, k) # "\\"}, i - 1)) % 2 = 1
  IN First(LAMBDA j : Ch(text, j - 1) = quote /\ ~escaped(j - 1), i + 1, Len(text), Len(text))

\* Where the loop is outside again after the comment or string opened at i.
Closes(text, i) ==
  IF Ch(text, i) = "/" /\ Ch(text, i + 1) = "/" THEN LineCommentEnd(text, i + 2)
  ELSE IF Ch(text, i) = "/" /\ Ch(text, i + 1) = "*" THEN BlockCommentEnd(text, i + 2)
  ELSE StringEnd(text, i + 1, Ch(text, i))

\* findClose: the loop from position i0 with depth. Characters that change
\* neither the state nor the depth are passed in one step.
RECURSIVE FindCloseLoop(_, _, _, _, _)
FindCloseLoop(text, i0, depth, openChar, closeChar) ==
  LET At(i) ==
        LET ch == Ch(text, i)
            d == depth + (IF ch = openChar THEN 1 ELSE 0) - (IF ch = closeChar THEN 1 ELSE 0)
        IN IF i >= Len(text) THEN Fail
           ELSE IF Opens(text, i)
           THEN FindCloseLoop(text, Closes(text, i), depth, openChar, closeChar)
           ELSE IF d = 0 THEN Ok(i)
           ELSE FindCloseLoop(text, i + 1, d, openChar, closeChar)
  IN At(First(LAMBDA j : depth = 0 \/ Ch(text, j) \in {openChar, closeChar} \/ Opens(text, j),
              i0, Len(text) - 1, Len(text)))

findClose(text, open, openChar, closeChar) ==
  FindCloseLoop(text, open, 0, openChar, closeChar)

\* parseStringToken: the loop from position i.
RECURSIVE StringTokenLoop(_, _, _, _, _)
StringTokenLoop(text, i, q, value, escaped) ==
  IF i >= Len(text) THEN Fail
  ELSE IF escaped THEN StringTokenLoop(text, i + 1, q, Append(value, Ch(text, i)), FALSE)
  ELSE IF Ch(text, i) = "\\" THEN StringTokenLoop(text, i + 1, q, value, TRUE)
  ELSE IF Ch(text, i) = q THEN Ok([value |-> value, endIndex |-> i + 1])
  ELSE StringTokenLoop(text, i + 1, q, Append(value, Ch(text, i)), FALSE)

parseStringToken(text, startIndex) ==
  IF ~isQuote(Ch(text, startIndex)) THEN Fail
  ELSE StringTokenLoop(text, startIndex + 1, Ch(text, startIndex), <<>>, FALSE)

\* The characters of a-z, A-Z, 0-9, _ and $ that the texts use.
IdentChars ==
  {"a", "b", "c", "e", "l", "n", "o", "r", "s", "t", "u", "x", "0", "1", "2", "_", "$"}

RECURSIVE IdentifierLoop(_, _, _)
IdentifierLoop(text, i, value) ==
  IF i < Len(text) /\ Ch(text, i) \in IdentChars
  THEN IdentifierLoop(text, i + 1, Append(value, Ch(text, i)))
  ELSE [value |-> value, endIndex |-> i]

parseIdentifierToken(text, startIndex) ==
  LET tok == IdentifierLoop(text, startIndex, <<>>)
  IN IF Len(tok.value) = 0 THEN Fail ELSE Ok(tok)

\* findValueEnd: the loop for a value that starts with none of { [ " '.
RECURSIVE ValueEndLoop(_, _, _)
ValueEndLoop(text, i0, depth) ==
  LET At(i) ==
        LET ch == Ch(text, i)
            d == depth + (IF ch \in {"{", "["} THEN 1 ELSE 0)
        IN IF i >= Len(text) THEN Ok(Len(text))
           ELSE IF Opens(text, i) THEN ValueEndLoop(text, Closes(text, i), depth)
           ELSE IF ch \in {"}", "]"}
                THEN IF d = 0 THEN Ok(i) ELSE ValueEndLoop(text, i + 1, d - 1)
           ELSE IF d = 0 /\ ch = "," THEN Ok(i)
           ELSE ValueEndLoop(text, i + 1, d)
  IN At(First(LAMBDA j : Ch(text, j) \in {"{", "[", "}", "]", ","} \/ Opens(text, j),
              i0, Len(text) - 1, Len(text)))

\* A findValueEnd that takes a value to end after its first character, so
\* that the search for keys goes on inside objects and arrays.
findValueEndShallow(text, valueStart) == Ok(valueStart + 1)

findValueEnd(text, valueStart) ==
  LET first == Ch(text, valueStart)
      After(close) == IF ~close.ok THEN close ELSE Ok(close.value + 1)
      EndOf(tok) == IF ~tok.ok THEN tok ELSE Ok(tok.value.endIndex)
  IN IF first = "{" THEN After(findClose(text, valueStart, "{", "}"))
     ELSE IF first = "[" THEN After(findClose(text, valueStart, "[", "]"))
     ELSE IF isQuote(first) THEN EndOf(parseStringToken(text, valueStart))
     ELSE ValueEndLoop(text, valueStart, 0)

\* findTopLevelPropertyValueSpan: the while loop from position i. The span
\* is [found |-> FALSE] for null.
RECURSIVE SpanLoop(_, _, _, _)
SpanLoop(text, i0, rootCloseIndex, propertyName) ==
  LET Rest(j) ==
        SpanLoop(text, IF Ch(text, j) = "," THEN j + 1 ELSE j, rootCloseIndex, propertyName)
      Value(key, valueStart, valueEndRes) ==
        IF ~valueEndRes.ok THEN valueEndRes
        ELSE IF key = propertyName
        THEN Ok([found |-> TRUE, valueStart |-> valueStart, valueEnd |-> valueEndRes.value])
        ELSE Rest(skip(text, valueEndRes.value))
      ValueAt(key, valueStart) == Value(key, valueStart, findValueEnd(text, valueStart))
      Colon(key, i) ==
        IF Ch(text, i) # ":" THEN Fail ELSE ValueAt(key, skip(text, i + 1))
      Key(keyTokenRes) ==
        IF ~keyTokenRes.ok THEN keyTokenRes
        ELSE Colon(keyTokenRes.value.value, skip(text, keyTokenRes.value.endIndex))
      At(i) ==
        IF i >= rootCloseIndex THEN Ok([found |-> FALSE])
        ELSE IF Ch(text, i) = "}" THEN Ok([found |-> FALSE])
        ELSE Key(IF isQuote(Ch(text, i)) THEN parseStringToken(text, i)
                 ELSE parseIdentifierToken(text, i))
  IN IF i0 >= rootCloseIndex THEN Ok([found |-> FALSE]) ELSE At(skip(text, i0))

findTopLevelPropertyValueSpan(text, rootOpenIndex, rootCloseIndex, propertyName) ==
  SpanLoop(text, rootOpenIndex + 1, rootCloseIndex, propertyName)

\* body.replaceAll(/\/\/.*$/gm, ""): from each // to the end of its line.
LineEnd(text, j) ==
  First(LAMBDA k : Ch(text, k) \in {"\n", "\r"}, j, Len(text) - 1, Len(text))

RECURSIVE StripLineComments(_, _)
StripLineComments(text, i) ==
  LET At(k) ==
        IF k >= Len(text) THEN Slice(text, i, Len(text))
        ELSE Slice(text, i, k) \o StripLineComments(text, LineEnd(text, k + 2))
  IN At(First(LAMBDA j : Ch(text, j) = "/" /\ Ch(text, j + 1) = "/",
              i, Len(text) - 2, Len(text)))

\* .replaceAll(/\/\*[\s\S]*?\*\//g, ""): from each /* through the nearest */
\* after it, when there is one.
RECURSIVE StripBlockComments(_, _)
StripBlockComments(text, i) ==
  LET At(k) ==
        IF k >= Len(text) THEN Slice(text, i, Len(text))
        ELSE Slice(text, i, k) \o StripBlockComments(text, SkipBlock(text, k + 2))
  IN At(First(LAMBDA j : /\ Ch(text, j) = "/" /\ Ch(text, j + 1) = "*"
                          /\ \E e \in (j + 2)..(Len(text) - 2) :
                               Ch(text, e) = "*" /\ Ch(text, e + 1) = "/",
              i, Len(text) - 4, Len(text)))

\* hasAnyProperties: cleaned.trim().length > 0
hasAnyProperties(text, rootOpenIndex, rootCloseIndex) ==
  LET body == Slice(text, rootOpenIndex + 1, rootCloseIndex)
      Trimmed(cleaned) == \E n \in 1..Len(cleaned) : ~isWhitespace(cleaned[n])
  IN Trimmed(StripBlockComments(StripLineComments(body, 0), 0))

\* lastSignificantChar: the loop from position i0. The characters up to the
\* next comment or string are taken in one step: the last of them that is
\* not whitespace, if any, is the last significant one so far.
RECURSIVE LastSignificantLoop(_, _, _, _)
LastSignificantLoop(text, i0, endIndex, last) ==
  LET Seen(i, at) ==
        IF i >= endIndex THEN IF at < i0 THEN last ELSE Ch(text, at)
        ELSE LastSignificantLoop(text, Closes(text, i), endIndex,
                                 IF at < i0 THEN last ELSE Ch(text, at))
      At(i) == Seen(i, Greatest({k \in i0..(i - 1) : ~isWhitespace(Ch(text, k))}, i0 - 1))
  IN At(First(LAMBDA j : Opens(text, j), i0, endIndex - 1, endIndex))

lastSignificantChar(text, endIndex) ==
  LastSignificantLoop(text, 0, endIndex, "")

\* JSON values: a literal (number, true, false, null) with its text, a string
\* with its characters, an array of values, an object of key/value members.
Literal(text) == [type |-> "literal", text |-> text, items |-> <<>>]

Str(text) == [type |-> "string", text |-> text, items |-> <<>>]

Arr(items) == [type |-> "array", text |-> <<>>, items |-> items]

Obj(items) == [type |-> "object", text |-> <<>>, items |-> items]

\* The quoted form of a string: JSON.stringify escapes " and \.
RECURSIVE Escaped(_)
Escaped(text) ==
  IF text = <<>> THEN <<>>
  ELSE (IF Head(text) \in {"\"", "\\"} THEN <<"\\", Head(text)>> ELSE <<Head(text)>>)
       \o Escaped(Tail(text))

Quoted(text) == <<"\"">> \o Escaped(text) \o <<"\"">>

\* JSON.stringify(value, null, 2), at the indentation ind.
RECURSIVE Stringify(_, _)
Stringify(v, ind) ==
  LET inner == ind \o <<" ", " ">>
      RECURSIVE Members(_)
      Members(n) ==
        (IF n = 1 THEN <<>> ELSE Members(n - 1) \o <<",">>)
        \o <<"\n">> \o inner
        \o (IF v.type = "object"
            THEN Quoted(v.items[n].key) \o <<":", " ">> \o Stringify(v.items[n].value, inner)
            ELSE Stringify(v.items[n], inner))
  IN CASE v.type = "literal" -> v.text
       [] v.type = "string" -> Quoted(v.text)
       [] v.type = "array" ->
            IF v.items = <<>> THEN <<"[", "]">>
            ELSE <<"[">> \o Members(Len(v.items)) \o <<"\n">> \o ind \o <<"]">>
       [] v.type = "object" ->
            IF v.items = <<>> THEN <<"{", "}">>
            ELSE <<"{">> \o Members(Len(v.items)) \o <<"\n">> \o ind \o <<"}">>

\* json.replaceAll("\n", "\n  "), one line feed at a time.
RECURSIVE Reindent(_)
Reindent(text) ==
  LET At(k) ==
        IF k = 0 THEN text
        ELSE SubSeq(text, 1, k) \o <<" ", " ">> \o Reindent(SubSeq(text, k + 1, Len(text)))
  IN At(Least({j \in 1..Len(text) : text[j] = "\n"}, 0))

formatValueForProperty(value) == Reindent(Stringify(value, <<>>))

\* The root of the text: const original = inputText.length === 0 ? "{}" :
\* inputText, the first significant character and the closing brace.
\* The text taken as it is, a zero-length text too.
OriginalAsIs(inputText) == inputText

Original(inputText) == IF Len(inputText) = 0 THEN <<"{", "}">> ELSE inputText

RootOf(original) ==
  LET Close(first, rootCloseRes) ==
        IF ~rootCloseRes.ok THEN rootCloseRes
        ELSE Ok([rootOpenIndex |-> first, rootCloseIndex |-> rootCloseRes.value])
      At(first) ==
        IF Ch(original, first) # "{" THEN Fail
        ELSE Close(first, findClose(original, first, "{", "}"))
  IN At(skip(original, 0))

\* The text for null
Null == [null |-> TRUE]

getTopLevelJsoncPropertyValueText(inputText, propertyName) ==
  LET original == Original(inputText)
      Span(spanRes) ==
        IF ~spanRes.ok THEN spanRes
        ELSE IF spanRes.value.found
        THEN Ok(Slice(original, spanRes.value.valueStart, spanRes.value.valueEnd))
        ELSE Ok(Null)
      Root(root) ==
        IF ~root.ok THEN root
        ELSE Span(findTopLevelPropertyValueSpan(original, root.value.rootOpenIndex,
                                                root.value.rootCloseIndex, propertyName))
  IN Root(RootOf(original))

TodoComment == <<"/", "/", " ", "T", "O", "D", "O", ":", " ", "w", "i", "n", "d", "o", "w", "s", " ", "s", "u", "p", "p", "o", "r", "t">>

upsertTopLevelJsoncProperty(inputText, propertyName, propertyValue) ==
  LET original == Original(inputText)
      Insert(rootCloseIndex, formattedValue, lastSig) ==
        LET comma == IF lastSig = "{" \/ lastSig = "," THEN <<>> ELSE <<",">>
            insert == comma \o <<"\n", " ", " ">> \o TodoComment \o <<"\n", " ", " ">>
                      \o Quoted(propertyName) \o <<":", " ">> \o formattedValue \o <<"\n">>
        IN Ok(Slice(original, 0, rootCloseIndex) \o insert
              \o Slice(original, rootCloseIndex, Len(original)))
      Span(rootOpenIndex, rootCloseIndex, spanRes, formattedValue) ==
        IF ~spanRes.ok THEN spanRes
        ELSE IF spanRes.value.found
        THEN Ok(Slice(original, 0, spanRes.value.valueStart) \o formattedValue
                \o Slice(original, spanRes.value.valueEnd, Len(original)))
        ELSE Insert(rootCloseIndex, formattedValue,
                    IF hasAnyProperties(original, rootOpenIndex, rootCloseIndex)
                    THEN lastSignificantChar(original, rootCloseIndex)
                    ELSE "{")
      Root(root) ==
        IF ~root.ok THEN root
        ELSE Span(root.value.rootOpenIndex, root.value.rootCloseIndex,
                  findTopLevelPropertyValueSpan(original, root.value.rootOpenIndex,
                                                root.value.rootCloseIndex, propertyName),
                  formatValueForProperty(propertyValue))
  IN Root(RootOf(original))

\* The properties the documents are made of. Each is the text before its
\* value (key, colon, whitespace and comments), the text of the value, and the
\* whitespace and comments that follow the value; name is the key, literal
\* tells a number, true, false or null from a string, array or object, nests
\* that the value holds a property named o, and decoy that the name o or
\* structure characters occur inside the property's strings, comments or
\* nested values. In this order: o with a number and
\* nothing after it; o with an object, then a comment that holds a comma and
\* a brace; o with true, then a comment that holds a comma; o as an
\* identifier key with null, then a line feed; o with a string that holds a
\* brace; a with an object that holds o and a string with escaped quotes, o
\* and the start of a comment; a after a comment that holds o and a brace,
\* with o nested in its array and a bracket in a string.
Props ==
  {[name |-> <<"o">>, pre |-> <<"\"", "o", "\"", ":", " ">>,
    value |-> <<"1">>,
    post |-> <<>>, literal |-> TRUE, nests |-> FALSE, decoy |-> FALSE],
   [name |-> <<"o">>, pre |-> <<"\"", "o", "\"", ":", " ">>,
    value |-> <<"{", "\"", "a", "\"", ":", " ", "[", "1", ",", " ", "2", "]", "}">>,
    post |-> <<" ", "/", "*", ",", "}", "*", "/">>, literal |-> FALSE, nests |-> FALSE, decoy |-> TRUE],
   [name |-> <<"o">>, pre |-> <<"\"", "o", "\"", ":", " ">>,
    value |-> <<"t", "r", "u", "e">>,
    post |-> <<" ", "/", "*", ",", "*", "/">>, literal |-> TRUE, nests |-> FALSE, decoy |-> TRUE],
   [name |-> <<"o">>, pre |-> <<"o", ":", " ">>,
    value |-> <<"n", "u", "l", "l">>,
    post |-> <<"\n">>, literal |-> TRUE, nests |-> FALSE, decoy |-> FALSE],
   [name |-> <<"o">>, pre |-> <<"\"", "o", "\"", ":", " ">>,
    value |-> <<"\"", "x", "}", "\"">>,
    post |-> <<>>, literal |-> FALSE, nests |-> FALSE, decoy |-> TRUE],
   [name |-> <<"a">>, pre |-> <<"\"", "a", "\"", ":", " ">>,
    value |-> <<"{", "\"", "o", "\"", ":", " ", "1", ",", " ", "\"", "s", "\"", ":", " ", "\"", "\\", "\"", "o", "\\", "\"", ":", " ", "/", "/", "\"", "}">>,
    post |-> <<" ">>, literal |-> FALSE, nests |-> TRUE, decoy |-> TRUE],
   [name |-> <<"a">>, pre |-> <<"/", "*", "\"", "o", "\"", ":", "1", ",", "}", "*", "/", " ", "'", "a", "'", ":", " ">>,
    value |-> <<"[", "{", "\"", "o", "\"", ":", " ", "2", "}", ",", " ", "\"", "]", "\"", "]">>,
    post |-> <<>>, literal |-> FALSE, nests |-> TRUE, decoy |-> TRUE]}

\* Sequences of different properties, MaxProps at most.
PropSeqs ==
  {ps \in SeqsUpTo(Props, MaxProps) : \A m, n \in 1..Len(ps) : m # n => ps[m] # ps[n]}

\* The properties of a body with what separates and follows them.
RECURSIVE Body(_)
Body(props) ==
  IF props = <<>> THEN <<>>
  ELSE Head(props).pre \o Head(props).value \o Head(props).post
       \o (IF Len(props) = 1 THEN <<>> ELSE <<",", " ">> \o Body(Tail(props)))

\* Around the body: a plain root, a root after a comment that holds a brace
\* and closed on a line of its own, a root with a trailing comma.
Wrappers == {"plain", "commented", "trailing"}

RootStart(w) == IF w = "commented" THEN <<"/", "*", "{", "*", "/", " ", "{">> ELSE <<"{">>

BodyEnd(w) ==
  CASE w = "plain" -> <<>>
    [] w = "commented" -> <<"\n">>
    [] w = "trailing" -> <<",">>

RootEnd(w) == IF w = "commented" THEN <<"}", "\n">> ELSE <<"}">>

\* A document with what is known of it from the way it is put together:
\* shape is "object" for a text with a root object; head is the text before
\* the closing brace of the root and tail the text from that brace on; open
\* tells that the last significant character of head is { or a comma; when
\* the root has a property named o, present is TRUE, value is the text of
\* the first such property's value, before the text before that value, post
\* the whitespace and comments after it, trail those up to the next comma or
\* brace, and after the text from the end of the value on.
Document(w, props) ==
  LET at == Least({n \in 1..Len(props) : props[n].name = <<"o">>}, 0)
      head == RootStart(w) \o Body(props) \o BodyEnd(w)
      tail == RootEnd(w)
      lead == RootStart(w)
              \o (IF at > 1 THEN Body(SubSeq(props, 1, at - 1)) \o <<",", " ">> ELSE <<>>)
  IN [text |-> head \o tail, shape |-> "object", head |-> head, tail |-> tail,
      open |-> props = <<>> \/ w = "trailing",
      present |-> at > 0,
      before |-> IF at > 0 THEN lead \o props[at].pre ELSE <<>>,
      value |-> IF at > 0 THEN props[at].value ELSE <<>>,
      post |-> IF at > 0 THEN props[at].post ELSE <<>>,
      trail |-> IF at > 0
                THEN props[at].post
                     \o (IF at = Len(props) /\ w = "commented" THEN BodyEnd(w) ELSE <<>>)
                ELSE <<>>,
      after |-> IF at > 0
                THEN props[at].post
                     \o (IF at < Len(props)
                         THEN <<",", " ">> \o Body(SubSeq(props, at + 1, Len(props)))
                         ELSE <<>>)
                     \o BodyEnd(w) \o tail
                ELSE <<>>,
      literal |-> at > 0 /\ props[at].literal,
      nested |-> \E n \in 1..Len(props) : props[n].nests,
      decoy |-> w = "commented" \/ \E n \in 1..Len(props) : props[n].decoy]

\* A text that is no document, or one of a shape of its own.
Special(text, shape, head, tail) ==
  [text |-> text, shape |-> shape, head |-> head, tail |-> tail, open |-> TRUE,
   present |-> FALSE, before |-> <<>>, value |-> <<>>, post |-> <<>>, trail |-> <<>>,
   after |-> <<>>,
   literal |-> FALSE, nested |-> FALSE, decoy |-> shape = "object"]

\* The text of a file that does not exist; the zero-length text; a blank
\* text; a text that is only a comment; a root that is an array; a root that
\* is not closed; a root whose only brace after the first is in a string; a
\* root whose only content is a comment; a root with one property between
\* two block comments, the first with // in it and the second on the next
\* line.
SpecialTexts ==
  {Special(<<>>, "missing", <<"{">>, <<"}">>),
   Special(<<>>, "empty", <<"{">>, <<"}">>),
   Special(<<" ">>, "notobject", <<>>, <<>>),
   Special(<<"/", "/", " ", "{", "\n">>, "notobject", <<>>, <<>>),
   Special(<<"[", "1", "]">>, "notobject", <<>>, <<>>),
   Special(<<"{", "\"", "o", "\"", ":", " ", "1">>, "unterminated", <<>>, <<>>),
   Special(<<"{", "\"", "a", "\"", ":", " ", "\"", "}">>, "unterminated", <<>>, <<>>),
   Special(<<"{", " ", "/", "*", " ", "/", "/", " ", "*", "/", " ", "}">>, "object", <<"{", " ", "/", "*", " ", "/", "/", " ", "*", "/", " ">>, <<"}">>),
   [Special(<<"{", "/", "*", " ", "/", "/", " ", "*", "/", " ", "\"", "a", "\"", ":", " ", "1", "\n", " ", "/", "*", " ", "x", " ", "*", "/", "}">>, "object",
            <<"{", "/", "*", " ", "/", "/", " ", "*", "/", " ", "\"", "a", "\"", ":", " ", "1", "\n", " ", "/", "*", " ", "x", " ", "*", "/">>, <<"}">>)
      EXCEPT !.open = FALSE]}

JsoncTexts ==
  {Document(w, props) : w \in Wrappers, props \in PropSeqs \ {<<>>}}
  \cup {Document(w, <<>>) : w \in {"plain", "commented"}}
  \cup SpecialTexts

\* Values of every JSON type.
JsonValues ==
  {Literal(<<"2">>),
   Literal(<<"t", "r", "u", "e">>),
   Literal(<<"n", "u", "l", "l">>),
   Str(<<"s", "\"", "}">>),
   Arr(<<Literal(<<"1">>)>>),
   Obj(<<[key |-> <<"a">>, value |-> Obj(<<>>)]>>)}

\* Effect.promise(() => Bun.file(configPath).text().catch(() => "{}")): the
\* text of the config file, {} when there is none.
ReadText(file) == IF file.exists THEN file.text ELSE <<"{", "}">>

InitJsonc ==
  /\ jparts \in JsoncTexts
  /\ jdoc = [exists |-> jparts.shape # "missing", text |-> jparts.text]
  /\ jname = <<"o">>
  /\ jvalue = Null
  /\ jcalls = "none"
  /\ jlast = [op |-> "none"]
  /\ ResolverIdle
  /\ InstallerIdle
  /\ CallIdle

\* A call of getTopLevelJsoncPropertyValueText on the text of the file.
JsoncGet ==
  /\ jcalls \in {"none", "one"}
  /\ jlast.op # "get"
  /\ jlast' = [op |-> "get", input |-> ReadText(jdoc),
               result |-> getTopLevelJsoncPropertyValueText(ReadText(jdoc), jname)]
  /\ UNCHANGED <<jdoc, jname, jvalue, jcalls, jparts>>
  /\ UNCHANGED <<rvars, ivars, cvars>>

\* A call of upsertTopLevelJsoncProperty on the text of the file; its output,
\* if any, is the text of the file from then on (updateConfigEffect writes it
\* back).
Upsert(v) ==
  LET Result(res) ==
        /\ jlast' = [op |-> "upsert", input |-> ReadText(jdoc), result |-> res]
        /\ jdoc' = IF res.ok THEN [exists |-> TRUE, text |-> res.value] ELSE jdoc
  IN /\ Result(upsertTopLevelJsoncProperty(ReadText(jdoc), jname, v))
     /\ jvalue' = v
     /\ UNCHANGED <<jname, jparts>>
     /\ UNCHANGED <<rvars, ivars, cvars>>

JsoncUpsert ==
  /\ jcalls = "none"
  /\ jcalls' = "one"
  /\ \E v \in JsonValues : Upsert(v)

\* The same call once more, on the output of the first.
JsoncUpsertAgain ==
  /\ jcalls = "one"
  /\ jcalls' = "two"
  /\ Upsert(jvalue)

NextJsonc ==
  \/ JsoncGet
  \/ JsoncUpsert
  \/ JsoncUpsertAgain

SpecJsonc == InitJsonc /\ [][NextJsonc]_vars

(***************************************************************************)
(* Manifests (registry.ts): parseV1 on what JSON.parse hands it            *)
(***************************************************************************)
\* err(e)
Err(e) == [ok |-> FALSE, error |-> e]

parseError(message) == [tag |-> "RegistryItemParseError", message |-> message]

\* What reading a key gives when the object has no such member.
Undefined == [type |-> "undefined", text |-> <<>>, items |-> <<>>]

\* obj.key, on an object as JSON.parse builds it: the last member with the key.
Field(obj, key) ==
  LET hits == {n \in 1..Len(obj.items) : obj.items[n].key = key}
  IN IF hits = {} THEN Undefined ELSE obj.items[Greatest(hits, 0)].value

isRecord(value) == value.type = "object"

\* String.prototype.trim
trim(text) ==
  LET keep == {n \in 1..Len(text) : ~isWhitespace(text[n])}
  IN IF keep = {} THEN <<>> ELSE SubSeq(text, Least(keep, 0), Greatest(keep, 0))

\* An optional value that is there, and one that is not.
Some(v) == <<v>>

None == <<>>

parseStringArray(val, field) ==
  IF val.type = "undefined" THEN Ok(<<>>)
  ELSE IF val.type # "array" \/ \E n \in 1..Len(val.items) : val.items[n].type # "string"
  THEN Err(parseError(field))
  ELSE Ok([n \in 1..Len(val.items) |-> val.items[n].text])

parseOptionalString(val, field) ==
  IF val.type = "undefined" THEN Ok(None)
  ELSE IF val.type = "string" THEN Ok(Some(val.text))
  ELSE Err(parseError(field))

KindTexts == {<<"t", "o", "o", "l">>, <<"a", "g", "e", "n", "t">>,
              <<"c", "o", "m", "m", "a", "n", "d">>, <<"t", "h", "e", "m", "e", "s">>}

ModeTexts == {<<"0", "6", "4", "4">>, <<"0", "7", "5", "5">>}

\* A file kept without its mode.
FileWithoutMode(f) ==
  Ok([path |-> Field(f, "path").text, content |-> Field(f, "content").text, mode |-> None])

\* The body of the loop over filesRaw, for one file.
FileOf(f) ==
  LET Checked(p, content, m) ==
        IF p.type # "string" \/ Len(p.text) = 0 THEN Err(parseError("file.path"))
        ELSE IF content.type # "string" THEN Err(parseError("file.content"))
        ELSE IF m.type = "undefined"
        THEN Ok([path |-> p.text, content |-> content.text, mode |-> None])
        ELSE IF ~(m.type = "string" /\ m.text \in ModeTexts) THEN Err(parseError("file.mode"))
        ELSE Ok([path |-> p.text, content |-> content.text, mode |-> Some(m.text)])
  IN IF ~isRecord(f) THEN Err(parseError("file"))
     ELSE Checked(Field(f, "path"), Field(f, "content"), Field(f, "mode"))

RECURSIVE FilesLoop(_, _, _)
FilesLoop(filesRaw, n, files) ==
  LET Pushed(res) ==
        IF ~res.ok THEN res ELSE FilesLoop(filesRaw, n + 1, Append(files, res.value))
  IN IF n > Len(filesRaw.items) THEN Ok(files)
     ELSE Pushed(FileOf(filesRaw.items[n]))

\* The postinstall part of parseV1.
PostinstallOf(post) ==
  LET Cwd(cmds, cwdRes) ==
        IF ~cwdRes.ok THEN cwdRes
        ELSE Ok(Some([commands |-> [n \in 1..Len(cmds.items) |-> cmds.items[n].text],
                      cwd |-> cwdRes.value]))
      Commands(cmds) ==
        IF cmds.type # "array" \/ \E n \in 1..Len(cmds.items) : cmds.items[n].type # "string"
        THEN Err(parseError("postinstall.commands"))
        ELSE Cwd(cmds, parseOptionalString(Field(post, "cwd"), "postinstall.cwd"))
  IN IF post.type = "undefined" THEN Ok(None)
     ELSE IF ~isRecord(post) THEN Err(parseError("postinstall"))
     ELSE Commands(Field(post, "commands"))

parseV1(raw) ==
  LET Item(kind, name, descRes, depsRes, filesRes, entryRes, postRes) ==
        IF ~postRes.ok THEN postRes
        ELSE Ok([schemaVersion |-> 1, kind |-> kind.text, name |-> name.text,
                 description |-> descRes.value,
                 registryDependencies |-> depsRes.value,
                 files |-> filesRes.value,
                 entry |-> entryRes.value,
                 postinstall |-> postRes.value])
      Entry(kind, name, descRes, depsRes, filesRes, entryRes) ==
        IF ~entryRes.ok THEN entryRes
        ELSE Item(kind, name, descRes, depsRes, filesRes, entryRes,
                  PostinstallOf(Field(raw, "postinstall")))
      Files(kind, name, descRes, depsRes, filesRes) ==
        IF ~filesRes.ok THEN filesRes
        ELSE Entry(kind, name, descRes, depsRes, filesRes,
                   parseOptionalString(Field(raw, "entry"), "entry"))
      Deps(kind, name, descRes, depsRes, filesRaw) ==
        IF ~depsRes.ok THEN depsRes
        ELSE IF filesRaw.type # "array" THEN Err(parseError("files"))
        ELSE Files(kind, name, descRes, depsRes, FilesLoop(filesRaw, 1, <<>>))
      Desc(kind, name, descRes) ==
        IF ~descRes.ok THEN descRes
        ELSE Deps(kind, name, descRes,
                  parseStringArray(Field(raw, "registryDependencies"), "registryDependencies"),
                  Field(raw, "files"))
      Name(kind, name) ==
        IF name.type # "string" \/ Len(trim(name.text)) = 0 THEN Err(parseError("name"))
        ELSE Desc(kind, name, parseOptionalString(Field(raw, "description"), "description"))
      Kind(kind) ==
        IF ~(kind.type = "string" /\ kind.text \in KindTexts) THEN Err(parseError("kind"))
        ELSE Name(kind, Field(raw, "name"))
      Version(ver) ==
        IF ~(ver.type = "literal" /\ ver.text = <<"1">>) THEN Err(parseError("schemaVersion"))
        ELSE Kind(Field(raw, "kind"))
  IN IF ~isRecord(raw) THEN Err(parseError("expected object"))
     ELSE Version(Field(raw, "schemaVersion"))

\* JSON.parse(JSON.stringify(m)) of an item m: an object with one member for
\* each key of m that has a value; a key whose value is undefined is left out.
Member(key, value) == [key |-> key, value |-> value]

Present(key, opt, Raw(_)) ==
  IF opt = None THEN <<>> ELSE <<Member(key, Raw(opt[1]))>>

StrArr(list) == Arr([n \in 1..Len(list) |-> Str(list[n])])

FileRaw(file) ==
  Obj(<<Member("path", Str(file.path)), Member("content", Str(file.content))>>
      \o Present("mode", file.mode, Str))

PostinstallRaw(post) ==
  Obj(<<Member("commands", StrArr(post.commands))>> \o Present("cwd", post.cwd, Str))

serialize(m) ==
  Obj(<<Member("schemaVersion", Literal(<<"1">>)),
        Member("kind", Str(m.kind)),
        Member("name", Str(m.name))>>
      \o Present("description", m.description, Str)
      \o Present("registryDependencies", m.registryDependencies, StrArr)
      \o <<Member("files", Arr([n \in 1..Len(m.files) |-> FileRaw(m.files[n])]))>>
      \o Present("entry", m.entry, Str)
      \o Present("postinstall", m.postinstall, PostinstallRaw))

\* Items that keep the invariants of a manifest: a kind of the four, a name
\* that is not blank, files with relative paths that stay in their directory
\* and a mode of the two, if any; MaxFiles files at most.
MaxFiles == 2

ValidFiles ==
  {[path |-> <<"i">>, content |-> <<"c">>, mode |-> None],
   [path |-> <<"a", "/", "b">>, content |-> <<>>, mode |-> Some(<<"0", "7", "5", "5">>)]}

Manifests ==
  [schemaVersion : {1},
   kind : KindTexts,
   name : {<<"x">>},
   description : {None, Some(<<"d">>)},
   registryDependencies : {None, Some(<<>>), Some(<< <<"a">> >>)},
   files : SeqsUpTo(ValidFiles, MaxFiles),
   entry : {None, Some(<<"i">>)},
   postinstall : {None, Some([commands |-> <<>>, cwd |-> None]),
                  Some([commands |-> << <<"c">> >>, cwd |-> Some(<<"w">>)])}]

\* obj with the member key set to value, and obj without it.
Without(obj, key) == Obj(SelectSeq(obj.items, LAMBDA mb : mb.key # key))

Set(obj, key, value) == Obj(Without(obj, key).items \o <<Member(key, value)>>)

AddFile(raw, file) ==
  Set(raw, "files", Arr(Field(raw, "files").items \o <<file>>))

GoodFile == FileRaw([path |-> <<"i">>, content |-> <<"c">>, mode |-> None])

\* The ways a raw manifest breaks an invariant of the manifest, one at a time.
Flaws ==
  {"not an object: null", "not an object: array",
   "schemaVersion 2", "schemaVersion \"1\"", "no schemaVersion",
   "kind plugin", "kind 1", "no kind",
   "name empty", "name blank", "name 5", "no name",
   "description 5", "description null",
   "registryDependencies string", "registryDependencies [1]",
   "files string", "no files", "file string",
   "path empty", "no path", "path 5", "path absolute", "path ../x", "path a/../../x",
   "path ..",
   "content 5", "no content",
   "mode 0600", "mode 420",
   "entry 5",
   "postinstall array", "postinstall null", "commands string", "commands [1]",
   "no commands", "cwd 5"}

Flawed(raw, flaw) ==
  CASE flaw = "not an object: null" -> Literal(<<"n", "u", "l", "l">>)
    [] flaw = "not an object: array" -> Arr(<<raw>>)
    [] flaw = "schemaVersion 2" -> Set(raw, "schemaVersion", Literal(<<"2">>))
    [] flaw = "schemaVersion \"1\"" -> Set(raw, "schemaVersion", Str(<<"1">>))
    [] flaw = "no schemaVersion" -> Without(raw, "schemaVersion")
    [] flaw = "kind plugin" -> Set(raw, "kind", Str(<<"p", "l", "u", "g", "i", "n">>))
    [] flaw = "kind 1" -> Set(raw, "kind", Literal(<<"1">>))
    [] flaw = "no kind" -> Without(raw, "kind")
    [] flaw = "name empty" -> Set(raw, "name", Str(<<>>))
    [] flaw = "name blank" -> Set(raw, "name", Str(<<" ", "\t">>))
    [] flaw = "name 5" -> Set(raw, "name", Literal(<<"5">>))
    [] flaw = "no name" -> Without(raw, "name")
    [] flaw = "description 5" -> Set(raw, "description", Literal(<<"5">>))
    [] flaw = "description null" -> Set(raw, "description", Literal(<<"n", "u", "l", "l">>))
    [] flaw = "registryDependencies string" -> Set(raw, "registryDependencies", Str(<<"a">>))
    [] flaw = "registryDependencies [1]" ->
         Set(raw, "registryDependencies", Arr(<<Str(<<"a">>), Literal(<<"1">>)>>))
    [] flaw = "files string" -> Set(raw, "files", Str(<<"i">>))
    [] flaw = "no files" -> Without(raw, "files")
    [] flaw = "file string" -> AddFile(raw, Str(<<"i">>))
    [] flaw = "path empty" -> AddFile(raw, Set(GoodFile, "path", Str(<<>>)))
    [] flaw = "no path" -> AddFile(raw, Without(GoodFile, "path"))
    [] flaw = "path 5" -> AddFile(raw, Set(GoodFile, "path", Literal(<<"5">>)))
    [] flaw = "path absolute" -> AddFile(raw, Set(GoodFile, "path", Str(<<"/", "a">>)))
    [] flaw = "path ../x" -> AddFile(raw, Set(GoodFile, "path", Str(<<".", ".", "/", "x">>)))
    [] flaw = "path a/../../x" ->
         AddFile(raw, Set(GoodFile, "path",
                          Str(<<"a", "/", ".", ".", "/", ".", ".", "/", "x">>)))
    [] flaw = "path .." -> AddFile(raw, Set(GoodFile, "path", Str(<<".", ".">>)))
    [] flaw = "content 5" -> AddFile(raw, Set(GoodFile, "content", Literal(<<"5">>)))
    [] flaw = "no content" -> AddFile(raw, Without(GoodFile, "content"))
    [] flaw = "mode 0600" -> AddFile(raw, Set(GoodFile, "mode", Str(<<"0", "6", "0", "0">>)))
    [] flaw = "mode 420" -> AddFile(raw, Set(GoodFile, "mode", Literal(<<"4", "2", "0">>)))
    [] flaw = "entry 5" -> Set(raw, "entry", Literal(<<"5">>))
    [] flaw = "postinstall array" -> Set(raw, "postinstall", Arr(<<>>))
    [] flaw = "postinstall null" -> Set(raw, "postinstall", Literal(<<"n", "u", "l", "l">>))
    [] flaw = "commands string" ->
         Set(raw, "postinstall", Obj(<<Member("commands", Str(<<"c">>))>>))
    [] flaw = "commands [1]" ->
         Set(raw, "postinstall", Obj(<<Member("commands", Arr(<<Literal(<<"1">>)>>))>>))
    [] flaw = "no commands" -> Set(raw, "postinstall", Obj(<<>>))
    [] flaw = "cwd 5" ->
         Set(raw, "postinstall",
             Obj(<<Member("commands", Arr(<<>>)), Member("cwd", Literal(<<"5">>))>>))

\* An item at hand, its serialization read back with JSON.parse, a flaw put
\* into what was read, and parseV1 on the outcome.
InitParse ==
  /\ cin \in {[op |-> "parseV1", m |-> m, flaw |-> "none", raw |-> Undefined] :
                m \in Manifests}
  /\ cpc = "item"
  /\ cout = [op |-> "none"]
  /\ ResolverIdle
  /\ InstallerIdle
  /\ JsoncIdle

Serialize ==
  /\ cpc = "item"
  /\ cin' = [cin EXCEPT !.raw = serialize(cin.m)]
  /\ cpc' = "raw"
  /\ UNCHANGED <<cout, rvars, ivars, jvars>>

Corrupt ==
  /\ cpc = "raw"
  /\ cin.flaw = "none"
  /\ \E flaw \in Flaws : cin' = [cin EXCEPT !.flaw = flaw, !.raw = Flawed(cin.raw, flaw)]
  /\ UNCHANGED <<cpc, cout, rvars, ivars, jvars>>

ParseV1 ==
  /\ cpc = "raw"
  /\ cout' = [op |-> "parseV1", result |-> parseV1(cin.raw)]
  /\ cpc' = "parsed"
  /\ UNCHANGED <<cin, rvars, ivars, jvars>>

NextParse ==
  \/ Serialize
  \/ Corrupt
  \/ ParseV1

SpecParse == InitParse /\ [][NextParse]_vars

(***************************************************************************)
(* Paths (node:path, POSIX): a path is a text                              *)
(***************************************************************************)
\* text.split("/"): the text up to its first slash, then the rest split; the
\* text is given as a value, by t.
RECURSIVE Split(_)
Split(text) ==
  LET Cut(t, k) ==
        IF k = 0 THEN <<t>>
        ELSE <<SubSeq(t, 1, k - 1)>> \o Split(SubSeq(t, k + 1, Len(t)))
  IN CHOOSE parts \in {Cut(t, Least({n \in 1..Len(t) : t[n] = "/"}, 0)) : t \in {text}} : TRUE

\* parts.join("/")
RECURSIVE Joined(_)
Joined(parts) ==
  LET Glued(ps) ==
        IF ps = <<>> THEN <<>>
        ELSE IF Len(ps) = 1 THEN ps[1]
        ELSE ps[1] \o <<"/">> \o Joined(Tail(ps))
  IN CHOOSE text \in {Glued(ps) : ps \in {parts}} : TRUE

startsWith(text, prefix) ==
  Len(text) >= Len(prefix) /\ SubSeq(text, 1, Len(prefix)) = prefix

endsWith(text, suffix) ==
  Len(text) >= Len(suffix) /\ SubSeq(text, Len(text) - Len(suffix) + 1, Len(text)) = suffix

DotDot == <<".", ".">>

\* normalizeString(path, allowAboveRoot): the segments that stay. An empty
\* segment and . are dropped, .. takes the segment before it away unless
\* there is none or it is .. itself; then it stays when allowAboveRoot.
RECURSIVE NormalizeSegments(_, _, _)
NormalizeSegments(segments, keptSoFar, allowAboveRoot) ==
  LET Rest(segs, kept) ==
        IF segs = <<>> THEN kept
        ELSE IF Head(segs) = <<>> \/ Head(segs) = <<".">>
        THEN NormalizeSegments(Tail(segs), kept, allowAboveRoot)
        ELSE IF Head(segs) # DotDot
        THEN NormalizeSegments(Tail(segs), Append(kept, Head(segs)), allowAboveRoot)
        ELSE IF kept # <<>> /\ kept[Len(kept)] # DotDot
        THEN NormalizeSegments(Tail(segs), SubSeq(kept, 1, Len(kept) - 1), allowAboveRoot)
        ELSE IF allowAboveRoot
        THEN NormalizeSegments(Tail(segs), Append(kept, DotDot), allowAboveRoot)
        ELSE NormalizeSegments(Tail(segs), kept, allowAboveRoot)
  IN CHOOSE res \in {Rest(segs, kept) : segs \in {segments}, kept \in {keptSoFar}} : TRUE

isAbsolute(p) == Len(p) > 0 /\ p[1] = "/"

\* path.posix.normalize
normalize(p) ==
  LET Around(body) ==
        IF body = <<>>
        THEN (IF isAbsolute(p) THEN <<"/">>
              ELSE IF p[Len(p)] = "/" THEN <<".", "/">> ELSE <<".">>)
        ELSE (IF isAbsolute(p) THEN <<"/">> ELSE <<>>) \o body
             \o (IF p[Len(p)] = "/" THEN <<"/">> ELSE <<>>)
  IN IF Len(p) = 0 THEN <<".">>
     ELSE Around(Joined(NormalizeSegments(Split(p), <<>>, ~isAbsolute(p))))

\* path.join(...parts)
join(parts) ==
  LET given == SelectSeq(parts, LAMBDA part : Len(part) > 0)
  IN IF given = <<>> THEN <<".">> ELSE normalize(Joined(given))

\* process.cwd()
ProcessCwd == <<"/", "w">>

\* path.resolve(...parts): the parts from the last absolute one on, after
\* the working directory of the process when none is absolute.
resolve(parts) ==
  LET abs == {n \in 1..Len(parts) : isAbsolute(parts[n])}
      from == IF abs = {} THEN <<ProcessCwd>> \o parts
              ELSE SubSeq(parts, Greatest(abs, 0), Len(parts))
  IN <<"/">> \o Joined(NormalizeSegments(Split(Joined(from)), <<>>, FALSE))

\* path.dirname
dirname(p) ==
  LET end == Greatest({i \in 1..(Len(p) - 1) :
                         Ch(p, i) = "/" /\ \E j \in (i + 1)..(Len(p) - 1) : Ch(p, j) # "/"},
                      -1)
  IN IF Len(p) = 0 THEN <<".">>
     ELSE IF end = -1 THEN (IF isAbsolute(p) THEN <<"/">> ELSE <<".">>)
     ELSE IF isAbsolute(p) /\ end = 1 THEN <<"/", "/">>
     ELSE Slice(p, 0, end)

\* The segments of a path, without the empty ones.
Segments(p) == SelectSeq(Split(p), LAMBDA s : s # <<>>)

\* path.relative(from, to): both made absolute; one .. for every segment of
\* from after what they have in common, then the rest of to.
relative(from, to) ==
  LET Up(n) == [i \in 1..n |-> DotDot]
      After(f, g, common) ==
        Joined(Up(Len(f) - common) \o SubSeq(g, common + 1, Len(g)))
      Between(f, g) ==
        After(f, g, Greatest({k \in 0..(IF Len(f) < Len(g) THEN Len(f) ELSE Len(g)) :
                               SubSeq(f, 1, k) = SubSeq(g, 1, k)}, 0))
  IN CHOOSE rel \in {Between(f, g) : f \in {Segments(resolve(<<from>>))},
                                     g \in {Segments(resolve(<<to>>))}} : TRUE

(***************************************************************************)
(* Fetching a manifest (registry.ts, embedded.ts)                          *)
(***************************************************************************)
missingSpec == [tag |-> "MissingSpec"]

unknownSpec(spec) == [tag |-> "UnknownSpec", spec |-> spec]

embeddedReadFailed(name) == [tag |-> "EmbeddedReadFailed", name |-> name]

fetchFailed(url, status) == [tag |-> "FetchFailed", url |-> url, status |-> status]

fileReadFailed(p) == [tag |-> "FileReadFailed", path |-> p]

jsonParseFailed(source) == [tag |-> "JSONParseFailed", source |-> source]

isUrl(spec) == startsWith(spec, <<"h", "t", "t", "p", ":", "/", "/">>) \/ startsWith(spec, <<"h", "t", "t", "p", "s", ":", "/", "/">>)

isPath(spec) ==
  \/ startsWith(spec, <<"/">>)
  \/ startsWith(spec, <<".", "/">>)
  \/ startsWith(spec, <<".", ".", "/">>)
  \/ endsWith(spec, <<".", "j", "s", "o", "n">>)

\* const TOOLS = { hello: ... }: the keys of the catalog, and keys that every
\* object has in its prototype chain without having them itself.
Tools == {<<"h", "e", "l", "l", "o">>}

ObjectPrototypeKeys == {<<"t", "o", "S", "t", "r", "i", "n", "g">>, <<"v", "a", "l", "u", "e", "O", "f">>}

\* key in TOOLS, and the same for own keys only.
OwnKeyOfTools(key) == key \in Tools

InTools(key) == key \in Tools \cup ObjectPrototypeKeys

\* s.includes("/") ? (s.split("/").at(-1) ?? "") : s
EmbeddedKey(name) ==
  LET s == trim(name)
  IN IF "/" \in Range(s) THEN Split(s)[Len(Split(s))] ELSE s

\* The item getEmbeddedRegistryItemEffect builds from the bundled file.
EmbeddedItem(k, content) ==
  [schemaVersion |-> 1, kind |-> <<"t", "o", "o", "l">>, name |-> k,
   description |-> Some(<<"E", "m", "b", "e", "d", "d", "e", "d", " ", "o", "c", "x", " ", "r", "e", "g", "i", "s", "t", "r", "y", " ", "i", "t", "e", "m">>),
   registryDependencies |-> <<>>,
   files |-> <<[path |-> <<"i", "n", "d", "e", "x", ".", "t", "s">>, content |-> content, mode |-> None]>>,
   entry |-> Some(<<"i", "n", "d", "e", "x", ".", "t", "s">>),
   postinstall |-> None]

EmbeddedSource(item) == <<"e", "m", "b", "e", "d", "d", "e", "d", ":">> \o item.kind \o <<"/">> \o item.name

\* What the world answers: the read of a bundled file, an HTTP GET, the read
\* of a file. A body is a text that is no JSON, or the value JSON.parse gives.
GoodRaw ==
  serialize([schemaVersion |-> 1, kind |-> <<"t", "o", "o", "l">>, name |-> <<"x">>,
             description |-> None, registryDependencies |-> None,
             files |-> <<>>, entry |-> None, postinstall |-> None])

Bodies ==
  {[json |-> FALSE, raw |-> Undefined],
   [json |-> TRUE, raw |-> GoodRaw],
   [json |-> TRUE, raw |-> Flawed(GoodRaw, "no name")]}

EmbeddedReads == {[ok |-> FALSE, content |-> <<>>], [ok |-> TRUE, content |-> <<"c">>]}

HttpAnswers ==
  {[tag |-> "rejected", status |-> 0, body |-> [json |-> FALSE, raw |-> Undefined]],
   [tag |-> "response", status |-> 404, body |-> [json |-> TRUE, raw |-> GoodRaw]]}
  \cup {[tag |-> "response", status |-> 200, body |-> b] : b \in Bodies}

FileAnswers ==
  {[tag |-> "rejected", body |-> [json |-> FALSE, raw |-> Undefined]]}
  \cup {[tag |-> "text", body |-> b] : b \in Bodies}

\* parseV1(raw) of a body, with the source the item came from.
ItemFrom(body, source) ==
  LET Parsed(res) ==
        IF ~res.ok THEN res ELSE Ok([item |-> res.value, source |-> source])
  IN IF ~body.json THEN Err(jsonParseFailed(source)) ELSE Parsed(parseV1(body.raw))

FetchSpecs ==
  {<<>>,
   <<" ", "\t">>,
   <<"h", "e", "l", "l", "o">>,
   <<" ", "h", "e", "l", "l", "o", "\n">>,
   <<"x", "/", "h", "e", "l", "l", "o">>,
   <<"h", "t", "t", "p", "s", ":", "/", "/", "h", "/", "h", "e", "l", "l", "o">>,
   <<".", "/", "h", "e", "l", "l", "o">>,
   <<".", ".", "/", "h", "e", "l", "l", "o", ".", "j", "s", "o", "n">>,
   <<"h", "t", "t", "p", "s", ":", "/", "/", "h", "/", "x">>,
   <<"h", "t", "t", "p", ":", "/", "/", "h", "/", "x", ".", "j", "s", "o", "n">>,
   <<".", "/", "x">>,
   <<".", ".", "/", "x">>,
   <<"/", "x">>,
   <<"/", "p", "/", ".", ".", "/", "x">>,
   <<"x", ".", "j", "s", "o", "n">>,
   <<"x">>,
   <<"h", "e", "l", "l", "o", "/">>,
   <<"f", "t", "p", ":", "/", "/", "h", "/", "x">>,
   <<"t", "o", "S", "t", "r", "i", "n", "g">>,
   <<"h", "t", "t", "p", "s", ":", "/", "/", "h", "/", "v", "a", "l", "u", "e", "O", "f">>,
   <<".", "/", "t", "o", "S", "t", "r", "i", "n", "g">>}

Cwds == {<<"/", "w">>, <<"/", "p", "/", "q">>}

InitFetch ==
  /\ cin \in {[op |-> "fetchRegistryItem", spec |-> spec, cwd |-> cwd] :
                spec \in FetchSpecs, cwd \in Cwds}
  /\ cpc = "start"
  /\ cout = [op |-> "fetchRegistryItem", touched |-> <<>>, result |-> Err(NoError)]
  /\ ResolverIdle
  /\ InstallerIdle
  /\ JsoncIdle

Finish(res, touched) ==
  /\ cout' = [op |-> "fetchRegistryItem", touched |-> touched, result |-> res]
  /\ cpc' = "done"

\* fetchRegistryItemEffect up to its first read: the spec is trimmed and the
\* way to go is chosen.
FetchStart ==
  LET Route(s) ==
        IF Len(s) = 0 THEN Finish(Err(missingSpec), <<>>)
        ELSE IF InTools(EmbeddedKey(s)) THEN cpc' = "embedded" /\ UNCHANGED cout
        ELSE IF isUrl(s) THEN cpc' = "http" /\ UNCHANGED cout
        ELSE IF isPath(s) THEN cpc' = "file" /\ UNCHANGED cout
        ELSE Finish(Err(unknownSpec(s)), <<>>)
  IN /\ cin.op = "fetchRegistryItem"
     /\ cpc = "start"
     /\ Route(trim(cin.spec))
     /\ UNCHANGED <<cin, rvars, ivars, jvars>>

\* getEmbeddedRegistryItemEffect: Bun.file(TOOLS[k]).text()
FetchEmbedded ==
  LET k == EmbeddedKey(trim(cin.spec))
      Read(read) ==
        Finish(IF read.ok
               THEN Ok([item |-> EmbeddedItem(k, read.content),
                        source |-> EmbeddedSource(EmbeddedItem(k, read.content))])
               ELSE Err(embeddedReadFailed(k)),
               <<[kind |-> "embedded", at |-> k]>>)
  IN /\ cpc = "embedded"
     /\ \E read \in EmbeddedReads : Read(read)
     /\ UNCHANGED <<cin, rvars, ivars, jvars>>

\* fetchJSONEffect(s), then parseV1
FetchJSON ==
  LET s == trim(cin.spec)
      Answer(a) ==
        Finish(IF a.tag = "rejected" THEN Err(fetchFailed(s, None))
               ELSE IF a.status # 200 THEN Err(fetchFailed(s, Some(a.status)))
               ELSE ItemFrom(a.body, s),
               <<[kind |-> "http", at |-> s]>>)
  IN /\ cpc = "http"
     /\ \E a \in HttpAnswers : Answer(a)
     /\ UNCHANGED <<cin, rvars, ivars, jvars>>

\* readTextEffect(resolved), parseJsonEffect, then parseV1
FetchFile ==
  LET s == trim(cin.spec)
      resolved == IF isAbsolute(s) THEN s ELSE resolve(<<cin.cwd, s>>)
      Answer(a) ==
        Finish(IF a.tag = "rejected" THEN Err(fileReadFailed(resolved))
               ELSE ItemFrom(a.body, resolved),
               <<[kind |-> "file", at |-> resolved]>>)
  IN /\ cpc = "file"
     /\ \E a \in FileAnswers : Answer(a)
     /\ UNCHANGED <<cin, rvars, ivars, jvars>>

NextFetch ==
  \/ FetchStart
  \/ FetchEmbedded
  \/ FetchJSON
  \/ FetchFile

SpecFetch == InitFetch /\ [][NextFetch]_vars

(***************************************************************************)
(* Planning (install.ts, planInstalls)                                     *)
(***************************************************************************)
invalidRegistryFilePath(p, message) ==
  [tag |-> "InvalidRegistryFilePath", path |-> p, message |-> message]

\* Any path taken as it is normalized.
normalizeRelPathUnchecked(p) == Ok(normalize(p))

normalizeRelPath(p) ==
  LET Checked(norm) ==
        IF isAbsolute(norm)
        THEN Err(invalidRegistryFilePath(p, "Registry file path must be relative"))
        ELSE IF norm = DotDot \/ startsWith(norm, <<".", ".", "/">>)
        THEN Err(invalidRegistryFilePath(p, "Registry file path cannot escape target dir"))
        ELSE IF Len(norm) = 0
        THEN Err(invalidRegistryFilePath(p, "Registry file path cannot be empty"))
        ELSE Ok(norm)
      \* .replace(/^\.\//, "")
      Replaced(norm) ==
        IF startsWith(norm, <<".", "/">>) THEN SubSeq(norm, 3, Len(norm)) ELSE norm
  IN Checked(Replaced(normalize(p)))

computeDirRel(configRoot, kind, name) ==
  Joined(IF configRoot.kind = "project" THEN <<<<".", "o", "p", "e", "n", "c", "o", "d", "e">>, kind, name>> ELSE <<kind, name>>)

\* Set.add, the set kept in the order of insertion.
Added(list, x) == IF x \in Range(list) THEN list ELSE Append(list, x)

\* The loop over item.files: the mkdirSet and the writes so far.
RECURSIVE WritesLoop(_, _, _, _, _)
WritesLoop(files, n, targetDir, mkdirSet, writes) ==
  LET Dest(dest) ==
        WritesLoop(files, n + 1, targetDir, Added(mkdirSet, dirname(dest)),
                   Append(writes, [path |-> dest, content |-> files[n].content,
                                   mode |-> files[n].mode]))
      Rel(relRes) ==
        IF ~relRes.ok THEN relRes
        ELSE Dest(join(<<targetDir>> \o Split(relRes.value)))
  IN IF n > Len(files) THEN Ok([mkdirs |-> mkdirSet, writes |-> writes])
     ELSE Rel(normalizeRelPath(files[n].path))

\* The body of the loop over resolved, for one item.
PlanOf(item, source, configRoot) ==
  LET kindDir == join(<<configRoot.opencodeDir, item.kind>>)
      targetDir == join(<<kindDir, item.name>>)
      dirRel == computeDirRel(configRoot, item.kind, item.name)
      postinstall ==
        IF item.postinstall = None THEN None
        ELSE Some([commands |-> item.postinstall[1].commands,
                   cwd |-> resolve(<<configRoot.rootDir,
                                     IF item.postinstall[1].cwd = None THEN <<".">>
                                     ELSE item.postinstall[1].cwd[1]>>)])
      Built(entryRel, files) ==
        [configRoot |-> configRoot,
         item |-> [kind |-> item.kind, name |-> item.name, source |-> source,
                   targetDir |-> targetDir, entryRel |-> entryRel],
         mkdirs |-> files.mkdirs,
         writes |-> files.writes,
         configEdits |-> <<[jsonPath |-> <<<<"o", "c", "x">>, <<"i", "t", "e", "m", "s">>, item.kind, item.name>>,
                            value |-> [source |-> source, dir |-> dirRel,
                                       entry |-> entryRel, postinstall |-> postinstall]]>>,
         postinstall |-> postinstall]
      Files(entryRel, filesRes) ==
        IF ~filesRes.ok THEN filesRes ELSE Ok(Built(entryRel, filesRes.value))
      Entry(entryRes) ==
        IF ~entryRes.ok THEN entryRes
        ELSE Files(dirRel \o <<"/">> \o entryRes.value,
                   WritesLoop(item.files, 1, targetDir,
                              Added(Added(<<configRoot.opencodeDir>>, kindDir), targetDir),
                              <<>>))
  IN Entry(normalizeRelPath(IF item.entry = None THEN <<"i", "n", "d", "e", "x", ".", "t", "s">> ELSE item.entry[1]))

RECURSIVE PlansLoop(_, _, _, _)
PlansLoop(resolved, n, configRoot, plans) ==
  LET Pushed(planRes) ==
        IF ~planRes.ok THEN planRes
        ELSE PlansLoop(resolved, n + 1, configRoot, Append(plans, planRes.value))
  IN IF n > Len(resolved) THEN Ok(plans)
     ELSE Pushed(PlanOf(resolved[n].item, resolved[n].source, configRoot))

planInstalls(resolved, configRoot) == PlansLoop(resolved, 1, configRoot, <<>>)

\* Items for the planner: an item with a name, an entry and files at paths.
ItemWith(name, entry, paths) ==
  [schemaVersion |-> 1, kind |-> <<"t", "o", "o", "l">>, name |-> name,
   description |-> None, registryDependencies |-> <<>>,
   files |-> [n \in 1..Len(paths) |-> [path |-> paths[n], content |-> <<"c">>,
                                       mode |-> IF n = 1 THEN None ELSE Some(<<"0", "7", "5", "5">>)]],
   entry |-> entry,
   postinstall |-> IF entry = None THEN None
                   ELSE Some([commands |-> << <<"c">> >>, cwd |-> None])]

\* Paths that stay in the target directory, paths that are the target
\* directory itself, paths that are absolute, leave it or come out empty,
\* and names that start with two dots.
PlanItems ==
  {ItemWith(<<"x">>, None, <<<<"i">>, <<"a", "/", "b">>>>),
   ItemWith(<<"y">>, Some(<<".", "/", "i">>), <<<<".", "/", "c">>, <<"a", "/", ".", ".", "/", "b">>>>),
   ItemWith(<<"x">>, None, <<<<"i">>, <<".", ".", "/", "e", "s", "c", "a", "p", "e", ".", "t", "x", "t">>>>),
   ItemWith(<<"x">>, None, <<<<"/", "e">>>>),
   ItemWith(<<"x">>, None, <<<<"a", "/", ".", ".", "/", ".", ".", "/", "e">>>>),
   ItemWith(<<"x">>, None, <<DotDot>>),
   ItemWith(<<"x">>, None, <<<<".", "/">>>>),
   ItemWith(<<"x">>, None, <<<<"i">>, <<"a", "/", ".", ".">>>>),
   ItemWith(<<"x">>, None, <<<<".">>>>),
   ItemWith(<<"x">>, Some(<<".", ".", "/", "e", "s", "c", "a", "p", "e", ".", "t", "x", "t">>), <<<<"i">>>>),
   ItemWith(<<"x">>, Some(<<"/", "e">>), <<<<"i">>>>),
   ItemWith(<<"x">>, Some(<<".", "/">>), <<<<"i">>>>),
   ItemWith(<<"x">>, Some(<<>>), <<<<"i">>>>),
   ItemWith(DotDot, None, <<<<"i">>>>),
   ItemWith(<<".", ".", "/", ".", ".", "/", "y">>, None, <<<<"i">>>>),
   ItemWith(<<"a", "/", "b">>, None, <<<<"i">>>>),
   ItemWith(<<"x">>, None, <<<<"i">>, <<".", ".", "f", "o", "o">>>>),
   ItemWith(<<"x">>, None, <<<<"i">>, <<"a", "/", ".", ".", "b">>>>)}

MaxItems == 2

ResolvedLists ==
  SeqsUpTo({[item |-> item, source |-> <<"s">>] : item \in PlanItems}, MaxItems)

\* The config roots resolveConfigRoot gives: one of a project, a global one.
ConfigRoots ==
  {[kind |-> "project", rootDir |-> <<"/", "p">>, opencodeDir |-> <<"/", "p", "/", ".", "o", "p", "e", "n", "c", "o", "d", "e">>, configPath |-> <<"/", "p", "/", ".", "o", "p", "e", "n", "c", "o", "d", "e", "/", "o", "p", "e", "n", "c", "o", "d", "e", ".", "j", "s", "o", "n", "c">>],
   [kind |-> "global", rootDir |-> <<"/", "h", "/", ".", "o", "p", "e", "n", "c", "o", "d", "e">>, opencodeDir |-> <<"/", "h", "/", ".", "o", "p", "e", "n", "c", "o", "d", "e">>, configPath |-> <<"/", "h", "/", ".", "o", "p", "e", "n", "c", "o", "d", "e", "/", "o", "p", "e", "n", "c", "o", "d", "e", ".", "j", "s", "o", "n", "c">>]}

InitPlan ==
  /\ cin \in {[op |-> "planInstalls", resolved |-> resolved, configRoot |-> configRoot] :
                resolved \in ResolvedLists, configRoot \in ConfigRoots}
  /\ cpc = "start"
  /\ cout = [op |-> "none"]
  /\ ResolverIdle
  /\ InstallerIdle
  /\ JsoncIdle

\* The call of planInstalls: it reads and writes no file.
PlanInstalls ==
  /\ cin.op = "planInstalls"
  /\ cpc = "start"
  /\ cout' = [op |-> "planInstalls", result |-> planInstalls(cin.resolved, cin.configRoot)]
  /\ cpc' = "done"
  /\ UNCHANGED <<cin, rvars, ivars, jvars>>

NextPlan == PlanInstalls

SpecPlan == InitPlan /\ [][NextPlan]_vars

(***************************************************************************)
(* Staging what was planned (install.ts, stageDirEffect)                   *)
(***************************************************************************)
\* Any write taken as lying in the target directory.
OutsideTargetDirNever(targetDir, path) == FALSE

\* const rel = path.relative(plan.item.targetDir, w.path);
\* rel.startsWith("..") || path.isAbsolute(rel)
OutsideTargetDir(targetDir, path) ==
  \E rel \in {relative(targetDir, path)} : startsWith(rel, DotDot) \/ isAbsolute(rel)

\* The test of the loop over plan.writes, for the plans in turn as
\* applyInstallPlansEffect stages them: the first write it refuses.
RECURSIVE ContainmentLoop(_, _, _)
ContainmentLoop(plans, n, w) ==
  IF n > Len(plans) THEN Ok(plans)
  ELSE IF w > Len(plans[n].writes) THEN ContainmentLoop(plans, n + 1, 1)
  ELSE IF OutsideTargetDir(plans[n].item.targetDir, plans[n].writes[w].path)
  THEN Err(writeOutsideTargetDir(plans[n].writes[w].path))
  ELSE ContainmentLoop(plans, n, w + 1)

\* The plans of a successful planInstalls go through the tests of staging.
StageContainment ==
  /\ cin.op = "planInstalls"
  /\ cpc = "done"
  /\ cout.result.ok
  /\ cout' = [op |-> "stageDirEffect", result |-> cout.result,
              staged |-> ContainmentLoop(cout.result.value, 1, 1)]
  /\ cpc' = "staged"
  /\ UNCHANGED <<cin, rvars, ivars, jvars>>

NextStage ==
  \/ PlanInstalls
  \/ StageContainment

SpecStage == InitPlan /\ [][NextStage]_vars

(***************************************************************************)
(* The config root (config-root.ts)                                        *)
(***************************************************************************)
isInsideByText(child, parent) ==
  LET c == resolve(<<child>>)
      p == resolve(<<parent>>)
  IN c = p \/ startsWith(c, p)

\* isInside(child, parent), both made absolute by path.resolve
isInside(child, parent) ==
  \E c \in {resolve(<<child>>)}, p \in {resolve(<<parent>>)} :
    \E sep \in {IF endsWith(p, <<"/">>) THEN p ELSE p \o <<"/">>} :
      c = p \/ startsWith(c, sep)

\* const globals = [path.join(home, ".config", "opencode"),
\*                  path.join(home, ".opencode")]
globals(home) ==
  <<join(<<home, <<".", "c", "o", "n", "f", "i", "g">>, <<"o", "p", "e", "n", "c", "o", "d", "e">>>>),
    join(<<home, <<".", "o", "p", "e", "n", "c", "o", "d", "e">>>>)>>

ConfigRootOf(kind, rootDir, opencodeDir) ==
  [kind |-> kind, rootDir |-> rootDir, opencodeDir |-> opencodeDir,
   configPath |-> join(<<opencodeDir, <<"o", "p", "e", "n", "c", "o", "d", "e", ".", "j", "s", "o", "n", "c">>>>)]

\* The working directories, absolute and relative to the one of the process:
\* 
\* /h/.opencode, /h/.opencode/x, /h/.opencode2, /h/.config/opencode, /h/.config/opencode/a/b
\* /h/.config, /.opencode/x, /p/a/b, /p/a/, /p
\* /, a, (empty), /p/a/../b, .opencode
\* /h, /h/x
RootCwds ==
  {<<"/", "h">>,
   <<"/", "h", "/", "x">>,
   <<"/", "h", "/", ".", "o", "p", "e", "n", "c", "o", "d", "e">>,
   <<"/", "h", "/", ".", "o", "p", "e", "n", "c", "o", "d", "e", "/", "x">>,
   <<"/", "h", "/", ".", "o", "p", "e", "n", "c", "o", "d", "e", "2">>,
   <<"/", "h", "/", ".", "c", "o", "n", "f", "i", "g", "/", "o", "p", "e", "n", "c", "o", "d", "e">>,
   <<"/", "h", "/", ".", "c", "o", "n", "f", "i", "g", "/", "o", "p", "e", "n", "c", "o", "d", "e", "/", "a", "/", "b">>,
   <<"/", "h", "/", ".", "c", "o", "n", "f", "i", "g">>,
   <<"/", ".", "o", "p", "e", "n", "c", "o", "d", "e", "/", "x">>,
   <<"/", "p", "/", "a", "/", "b">>,
   <<"/", "p", "/", "a", "/">>,
   <<"/", "p">>,
   <<"/">>,
   <<"a">>,
   <<>>,
   <<"/", "p", "/", "a", "/", ".", ".", "/", "b">>,
   <<".", "o", "p", "e", "n", "c", "o", "d", "e">>}

\* The home directories: /h, /h/, /
Homes == {<<"/", "h">>,
          <<"/", "h", "/">>,
          <<"/">>}

\* The directories named .opencode that may be there: 
\* /p/.opencode, /p/a/.opencode, /p/a/b/.opencode, /.opencode, /h/.opencode, /w/.opencode
OpencodeDirs ==
  {<<"/", "p", "/", ".", "o", "p", "e", "n", "c", "o", "d", "e">>,
   <<"/", "p", "/", "a", "/", ".", "o", "p", "e", "n", "c", "o", "d", "e">>,
   <<"/", "p", "/", "a", "/", "b", "/", ".", "o", "p", "e", "n", "c", "o", "d", "e">>,
   <<"/", ".", "o", "p", "e", "n", "c", "o", "d", "e">>,
   <<"/", "h", "/", ".", "o", "p", "e", "n", "c", "o", "d", "e">>,
   <<"/", "w", "/", ".", "o", "p", "e", "n", "c", "o", "d", "e">>}

InitRoot ==
  /\ cin \in {[op |-> "resolveConfigRoot", cwd |-> cwd, home |-> home, dirs |-> dirs] :
                cwd \in RootCwds, home \in Homes, dirs \in SUBSET OpencodeDirs}
  /\ cpc = "start"
  /\ cout = [op |-> "none"]
  /\ ResolverIdle
  /\ InstallerIdle
  /\ JsoncIdle

\* resolveConfigRoot up to the call of findProjectRoot: the loop over the
\* global directories, and cur = normalize(cwd) of findProjectRoot.
ResolveGlobals ==
  /\ cin.op = "resolveConfigRoot"
  /\ cpc = "start"
  /\ \E abs \in {resolve(<<cin.cwd>>)}, dirs \in {globals(cin.home)} :
       \E inside \in {{n \in 1..2 : isInside(abs, dirs[n])}} :
         IF inside # {}
         THEN /\ \E dir \in {dirs[Least(inside, 0)]} :
                   cout' = [op |-> "resolveConfigRoot",
                            result |-> ConfigRootOf("global", dir, dir)]
              /\ cpc' = "done"
         ELSE /\ cout' = [op |-> "findProjectRoot", cwd |-> abs, cur |-> resolve(<<abs>>)]
              /\ cpc' = "walk"
  /\ UNCHANGED <<cin, rvars, ivars, jvars>>

\* One turn of the loop of findProjectRoot, and what resolveConfigRoot makes
\* of the root it returns.
FindProjectRoot ==
  LET Project(root) ==
        /\ \E dir \in {join(<<root, <<".", "o", "p", "e", "n", "c", "o", "d", "e">>>>)} :
             cout' = [op |-> "resolveConfigRoot",
                      result |-> ConfigRootOf("project", root, dir)]
        /\ cpc' = "done"
  IN /\ cpc = "walk"
     /\ \E candidate \in {join(<<cout.cur, <<".", "o", "p", "e", "n", "c", "o", "d", "e">>>>)}, parent \in {dirname(cout.cur)} :
          IF candidate \in cin.dirs THEN Project(cout.cur)
          ELSE IF parent = cout.cur
          THEN \E root \in {resolve(<<cout.cwd>>)} : Project(root)
          ELSE cout' = [cout EXCEPT !.cur = parent] /\ cpc' = cpc
     /\ UNCHANGED <<cin, rvars, ivars, jvars>>

NextRoot ==
  \/ ResolveGlobals
  \/ FindProjectRoot

\* The loop of findProjectRoot awaits only stat, which answers.
SpecRoot == InitRoot /\ [][NextRoot]_vars /\ WF_vars(NextRoot)

(***************************************************************************)
(* The add command (cli/index.ts, runAdd)                                  *)
(***************************************************************************)
ErrorTags ==
  {"DependencyCycle", "MissingSpec", "UnknownSpec", "EmbeddedReadFailed", "FetchFailed",
   "FileReadFailed", "JSONParseFailed", "RegistryItemParseError", "NoPlans",
   "MissingConfigRoot", "InvalidRegistryFilePath", "WriteOutsideTargetDir",
   "TargetAlreadyExists", "IOError", "PostinstallFailed", "JSONCError"}

\* formatError(error): the switch has one text for each tag; with no case for
\* a tag the function returns undefined.
formatError(error) ==
  IF error.tag \in ErrorTags THEN [text |-> error.tag] ELSE [text |-> "undefined"]

exitWithErrorQuietly(sofar, error) ==
  [sofar EXCEPT !.stderr = Append(@, formatError(error))]

\* exitWithError(error): console.error(formatError(error)) and
\* process.exitCode = 1
exitWithError(sofar, error) ==
  [sofar EXCEPT !.stderr = Append(@, formatError(error)), !.exitCode = 1]

AfterCall(sofar, name) == [sofar EXCEPT !.calls = Append(@, name)]

\* What resolveRegistryTree may fail with.
ResolveErrors ==
  <<dependencyCycle("tool/x"), missingSpec, unknownSpec(<<"?">>),
    embeddedReadFailed(<<"h">>), fetchFailed(<<"u">>, None), fileReadFailed(<<"f">>),
    jsonParseFailed(<<"f">>), parseError(<<"m">>)>>

\* What applyInstallPlans may fail with on plans, and NoPlans on none.
ApplyErrors(plans) ==
  IF plans = <<>> THEN <<noPlans>>
  ELSE <<ioError("mkdir", "d"), targetAlreadyExists("d"), writeOutsideTargetDir("d"),
         jsoncError, postinstallFailed("c", 1)>>

InitAdd ==
  /\ cin \in {[op |-> "add", root |-> root, overwrite |-> ow, allowPostinstall |-> ap] :
                root \in ConfigRoots, ow \in BOOLEAN, ap \in BOOLEAN}
  /\ cpc = "start"
  /\ cout = [op |-> "add", calls |-> <<>>, resolved |-> <<>>, plans |-> <<>>,
             stderr |-> <<>>, exitCode |-> 0]
  /\ ResolverIdle
  /\ InstallerIdle
  /\ JsoncIdle

\* const root = await resolveConfigRoot(argv.cwd);
\* const resolvedRes = await resolveRegistryTree(argv.spec, { cwd: argv.cwd });
\* if (isErr(resolvedRes)) return exitWithError(resolvedRes.error);
AddResolve ==
  LET Here == AfterCall(AfterCall(cout, "resolveConfigRoot"), "resolveRegistryTree")
  IN /\ cin.op = "add"
     /\ cpc = "start"
     /\ \/ \E resolved \in ResolvedLists :
             /\ cout' = [Here EXCEPT !.resolved = resolved]
             /\ cpc' = "plan"
        \/ \E n \in 1..Len(ResolveErrors) :
             /\ cout' = exitWithError(Here, ResolveErrors[n])
             /\ cpc' = "exit"
     /\ UNCHANGED <<cin, rvars, ivars, jvars>>

\* const plansRes = planInstalls(resolvedRes.value, root);
\* if (isErr(plansRes)) return exitWithError(plansRes.error);
AddPlan ==
  /\ cpc = "plan"
  /\ \E plansRes \in {planInstalls(cout.resolved, cin.root)} :
       IF ~plansRes.ok
       THEN /\ cout' = exitWithError(AfterCall(cout, "planInstalls"), plansRes.error)
            /\ cpc' = "exit"
       ELSE /\ cout' = [AfterCall(cout, "planInstalls") EXCEPT !.plans = plansRes.value]
            /\ cpc' = "apply"
  /\ UNCHANGED <<cin, rvars, ivars, jvars>>

\* const applyRes = await applyInstallPlans(plans, {...});
\* if (isErr(applyRes)) return exitWithError(applyRes.error);
AddApply ==
  /\ cpc = "apply"
  /\ \/ /\ cout.plans # <<>>
        /\ cout' = AfterCall(cout, "applyInstallPlans")
        /\ cpc' = "exit"
     \/ \E n \in 1..Len(ApplyErrors(cout.plans)) :
          /\ cout' = exitWithError(AfterCall(cout, "applyInstallPlans"),
                                   ApplyErrors(cout.plans)[n])
          /\ cpc' = "exit"
  /\ UNCHANGED <<cin, rvars, ivars, jvars>>

NextAdd ==
  \/ AddResolve
  \/ AddPlan
  \/ AddApply

SpecAdd == InitAdd /\ [][NextAdd]_vars

(***************************************************************************)
(* Registering what was installed (install.ts, updateConfigEffect)         *)
(***************************************************************************)
ManagedKinds == {<<"t", "o", "o", "l">>, <<"a", "g", "e", "n", "t">>, <<"c", "o", "m", "m", "a", "n", "d">>, <<"t", "h", "e", "m", "e", "s">>}

ProtoName == <<"_", "_", "p", "r", "o", "t", "o", "_", "_">>

\* The last index of a slash in the text, 0 when it has none.
LastSlash(text) ==
  CHOOSE n \in 0..Len(text) :
    /\ n > 0 => text[n] = "/"
    /\ \A m \in (n + 1)..Len(text) : text[m] # "/"

\* An entry put beside the entries of its name.
AssignedBeside(items, kind, name, value) ==
  items \cup {[kind |-> kind, name |-> name, value |-> value]}

\* cfg.items[kind][name] = value, on the entries of the managed section: the
\* entry of that name is replaced. The name __proto__ is no property of an
\* object that has none of that name: the assignment sets its prototype.
Assigned(items, kind, name, value) ==
  IF name = ProtoName /\ ~(\E e \in items : e.kind = kind /\ e.name = name)
  THEN items
  ELSE {e \in items : ~(e.kind = kind /\ e.name = name)}
       \cup {[kind |-> kind, name |-> name, value |-> value]}

\* The managed section of a config text: the entries of the four kinds.
ExistingManaged(text) ==
  IF text.bad THEN Err(jsoncError)
  ELSE Ok({e \in text.items : e.kind \in ManagedKinds})

\* for (const plan of plans) cfg.items[kind][name] = {source, dir, entry, ...}
RECURSIVE RegisterLoop(_, _, _)
\* const dir = entryRel.split("/").slice(0, -1).join("/")
RegisterLoop(items, plans, n) ==
  IF n > Len(plans) THEN items
  ELSE RegisterLoop(
         Assigned(items, plans[n].item.kind, plans[n].item.name,
                  [source |-> plans[n].item.source,
                   dir |-> SubSeq(plans[n].item.entryRel, 1,
                                  LastSlash(plans[n].item.entryRel) - 1),
                   entry |-> plans[n].item.entryRel,
                   postinstall |-> plans[n].postinstall]),
         plans, n + 1)

\* Items with the entry in the item directory, in a directory below it, and
\* an item of the name __proto__.
ConfigItems ==
  {ItemWith(<<"x">>, None, <<<<"i">>>>),
   ItemWith(<<"y">>, Some(<<".", "/", "i">>), <<<<"i">>>>),
   ItemWith(<<"z">>, Some(<<"s", "r", "c", "/", "i">>), <<<<"s", "r", "c", "/", "i">>>>),
   ItemWith(ProtoName, None, <<<<"i">>>>)}

PriorValue ==
  [source |-> <<"o", "l", "d">>, dir |-> <<"t", "o", "o", "l", "/", "x">>, entry |-> <<"t", "o", "o", "l", "/", "x", "/", "i", "n", "d", "e", "x", ".", "t", "s">>, postinstall |-> None]

\* The config texts met: one whose ocx value does not parse, one with no
\* entries, ones with entries of the managed kinds and of another kind.
ConfigTexts ==
  {[bad |-> TRUE, items |-> {}],
   [bad |-> FALSE, items |-> {}],
   [bad |-> FALSE,
    items |-> {[kind |-> <<"t", "o", "o", "l">>, name |-> <<"x">>, value |-> PriorValue],
               [kind |-> <<"a", "g", "e", "n", "t">>, name |-> <<"x">>, value |-> PriorValue],
               [kind |-> <<"p", "l", "u", "g", "i", "n">>, name |-> <<"q">>, value |-> PriorValue]}],
   [bad |-> FALSE,
    items |-> {[kind |-> <<"t", "o", "o", "l">>, name |-> ProtoName, value |-> PriorValue],
               [kind |-> <<"t", "h", "e", "m", "e", "s">>, name |-> <<"q">>, value |-> PriorValue]}]}

InitRegister ==
  /\ cin \in {[op |-> "planInstalls", resolved |-> resolved, configRoot |-> configRoot,
               text |-> text] :
                resolved \in SeqsUpTo({[item |-> item, source |-> <<"s">>] : item \in ConfigItems},
                                      MaxItems),
                configRoot \in ConfigRoots, text \in ConfigTexts}
  /\ cpc = "start"
  /\ cout = [op |-> "none"]
  /\ ResolverIdle
  /\ InstallerIdle
  /\ JsoncIdle

\* updateConfigEffect for plans that were staged: the managed section of the
\* text is parsed, patched for every plan and put back.
updateConfigEffect ==
  /\ cin.op = "planInstalls"
  /\ cpc = "staged"
  /\ cout.staged.ok
  /\ \E cfg \in {ExistingManaged(cin.text)} :
       cout' = [op |-> "updateConfigEffect", result |-> cout.result,
                staged |-> cout.staged,
                cfg |-> IF ~cfg.ok THEN cfg
                        ELSE Ok(RegisterLoop(cfg.value, cout.staged.value, 1))]
  /\ cpc' = "registered"
  /\ UNCHANGED <<cin, rvars, ivars, jvars>>

NextRegister ==
  \/ PlanInstalls
  \/ StageContainment
  \/ updateConfigEffect

SpecRegister == InitRegister /\ [][NextRegister]_vars

(***************************************************************************)
(* Background shells (background_jobs: handleStart, handleKill, the close  *)
(* handler, loadIndex, saveIndex)                                          *)
(***************************************************************************)
\* The ids generateId gives to the calls of start: one for each call.
ShellIds == {"t1", "t2"}

\* The shells that a call of kill may name.
KillIds == {"t1"}

\* The calls of start and of kill and the close handlers, each by the id of
\* its shell. They run on one thread and give way at every file operation
\* they await.
Tasks == {"start", "close", "kill"} \X ShellIds

\* JSON.stringify(shells, null, 2) and JSON.parse of it: the entries in their
\* order, each with the status its metadata had when it was written.
Entry(id, status) == [id |-> id, status |-> status]

IdsOf(shells) == {shells[n].id : n \in 1..Len(shells)}

\* shells.findIndex((s) => s.id === id), 0 for none
findIndex(shells, id) == Least({n \in 1..Len(shells) : shells[n].id = id}, 0)

\* const index = shells.findIndex(...); if (index >= 0) shells[index] = metadata
Replaced(shells, id, metadata) ==
  IF findIndex(shells, id) > 0
  THEN [shells EXCEPT ![findIndex(shells, id)] = metadata]
  ELSE shells

\* saveIndex(shells) up to the call of fs.writeFile: the text is made, the
\* write is under way.
saveIndex(st, t, shells) ==
  [st EXCEPT !.data[t] = shells, !.pc[t] = "open"]

\* What a call does with the index it loaded, up to its next file operation.
\*   start: shells.push(metadata); await saveIndex(shells)
\*   close: the entry of the id is replaced; await saveIndex(shells)
\*   kill:  no entry of the id: the call answers "not found"; otherwise the
\*          process is sent SIGTERM and taken from runningProcesses, and the
\*          index without the id is saved
Loaded(st, t, shells) ==
  LET id == t[2] IN
  CASE t[1] = "start" ->
         saveIndex(st, t, Append(shells, Entry(id, st.meta[id])))
    [] t[1] = "close" ->
         saveIndex(st, t, Replaced(shells, id, Entry(id, st.meta[id])))
    [] t[1] = "kill" ->
         IF id \notin IdsOf(shells) THEN [st EXCEPT !.pc[t] = "list"]
         ELSE saveIndex([st EXCEPT !.signalled = IF id \in st.running THEN @ \cup {id} ELSE @,
                                   !.running = @ \ {id},
                                   !.killed = @ \cup {id}],
                        t, SelectSeq(shells, LAMBDA s : s.id # id))

\* loadIndex() up to fs.readFile: without an index file it returns [] at once.
loadIndex(st, t) ==
  IF ~st.index.exists THEN Loaded(st, t, <<>>)
  ELSE [st EXCEPT !.pc[t] = "read"]

\* The state of the tool as one record, and the step to such a record.
BgState == [pc |-> cpc,
            index |-> cout.index, running |-> cout.running, meta |-> cout.meta,
            proc |-> cout.proc, attached |-> cout.attached, dirs |-> cout.dirs,
            signalled |-> cout.signalled, killed |-> cout.killed,
            buf |-> cout.buf, data |-> cout.data]

BgBecomes(st) ==
  /\ cpc' = st.pc
  /\ cout' = [op |-> "background_jobs",
              index |-> st.index, running |-> st.running, meta |-> st.meta,
              proc |-> st.proc, attached |-> st.attached, dirs |-> st.dirs,
              signalled |-> st.signalled, killed |-> st.killed,
              buf |-> st.buf, data |-> st.data]
  /\ UNCHANGED <<cin, rvars, ivars, jvars>>

\* The module was imported and cleanupStaleShells has ended: no index file,
\* no shell directory, no process.
InitBg ==
  /\ cin = [op |-> "background_jobs", kills |-> KillIds]
  /\ cpc = [t \in Tasks |-> "idle"]
  /\ cout = [op |-> "background_jobs",
             index |-> [exists |-> FALSE, torn |-> FALSE, content |-> <<>>],
             running |-> {}, meta |-> [id \in ShellIds |-> "none"],
             proc |-> [id \in ShellIds |-> "none"], attached |-> {}, dirs |-> {},
             signalled |-> {}, killed |-> {},
             buf |-> [t \in Tasks |-> <<>>], data |-> [t \in Tasks |-> <<>>]]
  /\ ResolverIdle
  /\ InstallerIdle
  /\ JsoncIdle

\* handleStart up to await fs.open(outputFile, "w"): the shell directory is
\* made, the process is spawned and put in runningProcesses.
HandleStart(id) ==
  /\ cin.op = "background_jobs"
  /\ cpc[<<"start", id>>] = "idle"
  /\ BgBecomes([BgState EXCEPT !.dirs = @ \cup {id},
                               !.meta[id] = "running",
                               !.proc[id] = "alive",
                               !.running = @ \cup {id},
                               !.pc[<<"start", id>>] = "fsOpen"])

\* The output file is open: the handlers are put on the process, then
\* const shells = await loadIndex().
StartOpened(id) ==
  /\ cin.op = "background_jobs"
  /\ cpc[<<"start", id>>] = "fsOpen"
  /\ BgBecomes(loadIndex([BgState EXCEPT !.attached = @ \cup {id}], <<"start", id>>))

\* The process of a shell ends and its streams close: the event "close" goes
\* to the handler that is on the process by then.
ProcessClose(id) ==
  /\ cin.op = "background_jobs"
  /\ cout.proc[id] = "alive"
  /\ BgBecomes([BgState EXCEPT !.proc[id] = "closed",
                               !.pc[<<"close", id>>] =
                                  IF id \in cout.attached THEN "streamClose" ELSE @])

\* The close handler after await outputStream.close(): the id leaves
\* runningProcesses, the metadata becomes finished, the index is loaded.
CloseHandler(id) ==
  /\ cin.op = "background_jobs"
  /\ cpc[<<"close", id>>] = "streamClose"
  /\ BgBecomes(loadIndex([BgState EXCEPT !.running = @ \ {id},
                                         !.meta[id] = "finished"],
                         <<"close", id>>))

\* handleKill up to the await in loadIndex, for a shell whose start has
\* returned its id.
HandleKill(id) ==
  /\ cin.op = "background_jobs"
  /\ id \in cin.kills
  /\ cpc[<<"kill", id>>] = "idle"
  /\ cpc[<<"start", id>>] = "returned"
  /\ BgBecomes(loadIndex(BgState, <<"kill", id>>))

\* fs.readFile(INDEX_FILE, "utf-8") and JSON.parse(content): a file that is
\* being written reads as a text that does not parse, and loadIndex returns [].
ReadIndex(t) ==
  /\ cin.op = "background_jobs"
  /\ cpc[t] = "read"
  /\ BgBecomes([BgState EXCEPT !.buf[t] = IF cout.index.exists /\ ~cout.index.torn
                                          THEN cout.index.content ELSE <<>>,
                               !.pc[t] = "loaded"])

\* The call goes on with the index it loaded.
AfterLoad(t) ==
  /\ cin.op = "background_jobs"
  /\ cpc[t] = "loaded"
  /\ BgBecomes(Loaded([BgState EXCEPT !.buf[t] = <<>>], t, cout.buf[t]))

\* fs.writeFile(INDEX_FILE, text): the file is opened and cut to nothing
WriteOpen(t) ==
  /\ cin.op = "background_jobs"
  /\ cpc[t] = "open"
  /\ BgBecomes([BgState EXCEPT !.index = [exists |-> TRUE, torn |-> TRUE, content |-> <<>>],
                               !.pc[t] = "write"])

\* and the text is written; the call goes on to its next file operation.
WriteIndex(t) ==
  /\ cin.op = "background_jobs"
  /\ cpc[t] = "write"
  /\ BgBecomes([BgState EXCEPT !.index = [exists |-> TRUE, torn |-> FALSE,
                                          content |-> cout.data[t]],
                               !.data[t] = <<>>,
                               !.pc[t] = CASE t[1] = "start" -> "list"
                                           [] t[1] = "close" -> "done"
                                           [] t[1] = "kill" -> "rm"])

\* await fs.rm(shellDir, {recursive: true, force: true})
KillRm(id) ==
  /\ cin.op = "background_jobs"
  /\ cpc[<<"kill", id>>] = "rm"
  /\ BgBecomes([BgState EXCEPT !.dirs = @ \ {id}, !.pc[<<"kill", id>>] = "list"])

\* return `...${await getShellsList()}`: the list is read and the call returns.
Return(t) ==
  /\ cin.op = "background_jobs"
  /\ cpc[t] = "list"
  /\ BgBecomes([BgState EXCEPT !.pc[t] = "returned"])

NextBg ==
  \/ \E id \in ShellIds : HandleStart(id)
  \/ \E id \in ShellIds : StartOpened(id)
  \/ \E id \in ShellIds : ProcessClose(id)
  \/ \E id \in ShellIds : CloseHandler(id)
  \/ \E id \in ShellIds : HandleKill(id)
  \/ \E t \in Tasks : ReadIndex(t)
  \/ \E t \in Tasks : AfterLoad(t)
  \/ \E t \in Tasks : WriteOpen(t)
  \/ \E t \in Tasks : WriteIndex(t)
  \/ \E id \in ShellIds : KillRm(id)
  \/ \E t \in Tasks : Return(t)

SpecBg == InitBg /\ [][NextBg]_vars

(***************************************************************************)
(* Resolver: properties                                                    *)
(***************************************************************************)
OutKey(i) == KeyOf(out[i].item)

OutDeps(i) == out[i].item.registryDependencies

Ended == rstatus \in {"ok", "err"}

\* Key K -> key L: a fetched manifest of identity K names a spec that the
\* fetcher resolves to identity L.
KeyEdges ==
  UNION {{<<KeyOf(registry[s]), KeyOf(registry[d])>> :
            d \in {e \in Range(registry[s].registryDependencies) : IsManifest(registry[e])}} :
         s \in {t \in SpecNames : IsManifest(registry[t])}}

RECURSIVE Closure(_, _)
Closure(S, edges) ==
  LET more == S \cup {e[2] : e \in {f \in edges : f[1] \in S}}
  IN IF more = S THEN S ELSE Closure(more, edges)

OnKeyCycle(k) == k \in Closure({e[2] : e \in {f \in KeyEdges : f[1] = k}}, KeyEdges)

\* The position in fetchLog of the first fetch that returned key k.
FirstFetch(k) ==
  CHOOSE n \in 1..Len(fetchLog) :
    /\ fetchLog[n].ok /\ fetchLog[n].key = k
    /\ \A m \in 1..(n - 1) : ~(fetchLog[m].ok /\ fetchLog[m].key = k)

OutKeysOnce == \A i, j \in 1..Len(out) : OutKey(i) = OutKey(j) => i = j

FirstFetchKept ==
  \A i \in 1..Len(out) :
    /\ \E n \in 1..Len(fetchLog) : fetchLog[n].ok /\ fetchLog[n].key = OutKey(i)
    /\ out[i] = [item |-> registry[fetchLog[FirstFetch(OutKey(i))].spec],
                 source |-> fetchLog[FirstFetch(OutKey(i))].spec]

\* C1: in the list a successful call returns, every item comes after all the
\* items its registryDependencies resolve to: for an item at index i and a
\* dependency spec resolving to key K, the entry with key K exists and has an
\* index smaller than i.
C1_PostOrder ==
  rstatus = "ok" =>
    \A i \in 1..Len(out) : \A n \in 1..Len(OutDeps(i)) :
      /\ IsManifest(registry[OutDeps(i)[n]])
      /\ \E j \in 1..(i - 1) : OutKey(j) = KeyOf(registry[OutDeps(i)[n]])
      /\ \A j \in 1..Len(out) : OutKey(j) = KeyOf(registry[OutDeps(i)[n]]) => j < i

\* A successful call whose output holds an item with a dependency, and so at
\* least two entries.
C1_Witness ==
  /\ rstatus = "ok"
  /\ Len(out) >= 2
  /\ \E i \in 1..Len(out) : Len(OutDeps(i)) >= 1

\* C2: whenever a fetch returns an item whose key is on the active path, the
\* call fails with DependencyCycle naming exactly that key, and the failure is
\* what the call ends with; and DependencyCycle is only ever reported for a key
\* that lies on a cycle of the key graph.
C2_CycleDetection ==
  /\ [][/\ (/\ Len(fetchLog') = Len(fetchLog) + 1
            /\ fetchLog'[Len(fetchLog')].ok
            /\ fetchLog'[Len(fetchLog')].key \in visiting)
           => (/\ rstatus' = "failing"
               /\ rerror' = [tag |-> "DependencyCycle",
                             at |-> fetchLog'[Len(fetchLog')].key])
        /\ rstatus = "failing" => (rerror' = rerror /\ rstatus' \in {"failing", "err"})
        /\ rstatus = "err" => (rerror' = rerror /\ rstatus' = "err")]_vars
  /\ [](rerror.tag = "DependencyCycle" => OnKeyCycle(rerror.at))

\* A -> B -> A: the third fetch returns the key of the first, and the call has
\* ended with DependencyCycle.
C2_Witness ==
  /\ rstatus = "err"
  /\ rerror.tag = "DependencyCycle"
  /\ Len(fetchLog) >= 3
  /\ fetchLog[1].key = rerror.at
  /\ fetchLog[2].key # rerror.at

\* C3: the call ends (with a list or an error), the number of fetches is
\* bounded by the root specs plus the dependencies of the keys expanded, and
\* no key has its dependencies expanded twice.
C3_Termination ==
  /\ <>Ended
  /\ [](\A i, j \in 1..Len(expanded) : expanded[i] = expanded[j] => i = j)
  /\ [](Len(fetchLog) <= Len(specs) + Cardinality(Range(expanded)) * MaxDeps)

\* A successful call in which a fetch returned a key that was already resolved.
C3_Witness ==
  /\ rstatus = "ok"
  /\ \E i, j \in 1..Len(fetchLog) : i < j /\ fetchLog[i].key = fetchLog[j].key

\* Keys reachable from the root specs through the dependencies of every
\* manifest the fetcher answers with.
SpecReachableKeys == {KeyOf(registry[s]) : s \in {t \in MentionedSpecs : IsManifest(registry[t])}}

\* Keys reachable from the root specs through the dependencies of the entries
\* kept in out.
KeptEdges ==
  UNION {{<<OutKey(i), KeyOf(registry[d])>> :
            d \in {e \in Range(OutDeps(i)) : IsManifest(registry[e])}} :
         i \in 1..Len(out)}

KeptReachableKeys ==
  Closure({KeyOf(registry[s]) : s \in {t \in Range(specs) : IsManifest(registry[t])}},
          KeptEdges)

\* C4 as stated: a successful output has exactly one entry for every key
\* reachable from the root specs (through any fetched manifest) and no other,
\* each the item and source of the first fetch that returned its key.
C4_AsStated ==
  (rstatus = "ok" /\ \A s \in MentionedSpecs : registry[s] # Unfetched) =>
    /\ OutKeysOnce
    /\ {OutKey(i) : i \in 1..Len(out)} = SpecReachableKeys
    /\ FirstFetchKept

\* C4, amended: a successful output has exactly one entry for every key
\* reachable from the root specs through the registryDependencies of the
\* entries kept, and no other entry; the entry kept for a key is the item and
\* source of the first fetch that returned that key.
C4_OutputKeys ==
  rstatus = "ok" =>
    /\ OutKeysOnce
    /\ {OutKey(i) : i \in 1..Len(out)} = KeptReachableKeys
    /\ FirstFetchKept

\* A successful call in which two different specs returned the same key.
C4_Witness ==
  /\ rstatus = "ok"
  /\ Len(out) >= 2
  /\ \E i, j \in 1..Len(fetchLog) :
       i < j /\ fetchLog[i].key = fetchLog[j].key /\ fetchLog[i].spec # fetchLog[j].spec

(***************************************************************************)
(* Installer: properties                                                   *)
(***************************************************************************)
Called == {p \in Invocations : inv[p].pc # "idle"}

EventsOf(kind) == SelectSeq(events, LAMBDA e : e.kind = kind)

\* The items an invocation promoted so far, in the order of the renames.
PromotedBy(p) ==
  LET q == SelectSeq(events, LAMBDA e : e.kind = "promote" /\ e.inv = p)
  IN [n \in 1..Len(q) |-> q[n].id]

ConfigWritesBy(p) == Len(SelectSeq(events, LAMBDA e : e.kind = "config" /\ e.inv = p))

IsPrefix(q, r) == Len(q) <= Len(r) /\ \A n \in 1..Len(q) : q[n] = r[n]

FailedWith(p, tag) ==
  /\ inv[p].pc = "failed"
  /\ inv[p].result.error.tag = tag

\* The config file registers the item as the installer writes it.
Registers(file, id) ==
  /\ file.exists
  /\ file.complete
  /\ ~file.text.bad
  /\ <<id, "plan">> \in file.text.items

\* C5: when applyInstallPlans is given two plans and the second one fails with
\* TargetAlreadyExists (overwrite false), on return the target of the first
\* plan is fully installed, the config file registers the item of the first
\* plan and not that of the second, and the target of the second plan holds
\* nothing partial (it is as it was before the call).
C5_AsStated ==
  \A p \in Called :
    ( /\ Len(inv[p].plans) = 2
      /\ FailedWith(p, "TargetAlreadyExists")
      /\ inv[p].result.error.path = inv[p].plans[2] )
    => /\ target[inv[p].plans[1]] = Dir(PlanFiles(inv[p].plans[1]))
       /\ Registers(cfgFile, inv[p].plans[1])
       /\ ~Registers(cfgFile, inv[p].plans[2])
       /\ target[inv[p].plans[2]] = pre.target[inv[p].plans[2]]

\* C6: the plans are promoted in list order (the promoted ones are a prefix of
\* the list), no write goes into a live target, and at every state the target
\* of each plan is absent, holds its contents of before the call, or holds the
\* complete file set of the plan.
C6_AsStated ==
  \A p \in Called :
    /\ IsPrefix(PromotedBy(p), inv[p].plans)
    /\ \A id \in Range(inv[p].plans) :
         \/ target[id] = NoDir
         \/ target[id] = pre.target[id]
         \/ target[id] = Dir(PlanFiles(id))

\* C7: when a call with one plan fails in staging or promoting the plan (the
\* plan was not promoted), the target of the plan is exactly as it was before
\* the call.
C7_AsStated ==
  \A p \in Called :
    ( /\ Len(inv[p].plans) = 1
      /\ inv[p].pc = "failed"
      /\ PromotedBy(p) = <<>> )
    => target[inv[p].plans[1]] = pre.target[inv[p].plans[1]]

\* C8: while the target of a plan exists from before the call and overwrite
\* is false, the call does not succeed, the contents of that directory stay
\* unchanged, the config file is not written and no postinstall command runs;
\* the existence check then fails with TargetAlreadyExists naming that
\* directory, which is the result of the call; and a target that existed is
\* promoted only with overwrite true and after its removal.
C8_TargetExists ==
  /\ [](\A p \in Called : \A id \in Range(inv[p].plans) :
          (pre.target[id].exists /\ ~inv[p].overwrite)
          => /\ inv[p].pc # "done"
             /\ target[id] = pre.target[id]
             /\ cfgFile = pre.cfgFile
             /\ EventsOf("config") = <<>>
             /\ EventsOf("spawn") = <<>>)
  /\ [](\A p \in Called :
          FailedWith(p, "TargetAlreadyExists")
          => /\ inv[p].result.error.path = inv[p].plans[inv[p].i]
             /\ pre.target[inv[p].result.error.path].exists
             /\ ~inv[p].overwrite)
  /\ [][\A p \in Called :
          /\ ( /\ inv[p].pc = "exists"
               /\ target[CurPlan(p).id].exists
               /\ ~inv[p].overwrite
               /\ inv'[p] # inv[p] )
             => inv'[p].err = targetAlreadyExists(CurPlan(p).id)
          /\ ( /\ inv[p].pc = "release"
               /\ inv[p].err # NoError
               /\ inv'[p] # inv[p] )
             => /\ inv'[p].pc = "failed"
                /\ inv'[p].result.error = inv[p].err
          /\ PromotedBy(p)' # PromotedBy(p)
             => /\ ~target[CurPlan(p).id].exists
                /\ pre.target[CurPlan(p).id].exists => inv[p].overwrite
     ]_vars

\* A call with two plans ended with TargetAlreadyExists on its second plan,
\* whose directory held files before the call, after the first was promoted.
C8_Witness ==
  /\ FailedWith("a", "TargetAlreadyExists")
  /\ inv["a"].i = 2
  /\ pre.target[inv["a"].plans[2]] = Dir(OldFiles)
  /\ PromotedBy("a") = <<inv["a"].plans[1]>>

\* C9: the file at configPath changes only by the rename of a completely
\* written temporary file over it; at every state, also with two invocations
\* at once, it is as before the calls (absent or complete) or it is the whole
\* output of the invocation whose rename came last.
C9_AtomicConfig ==
  /\ [](LET q == EventsOf("config") IN
          IF q = <<>> THEN cfgFile = pre.cfgFile
          ELSE cfgFile = File(inv[q[Len(q)].inv].updated, TRUE))
  /\ [](cfgFile.exists => cfgFile.complete)
  /\ [][cfgFile' # cfgFile
        => \E p \in Called :
             /\ inv[p].pc = "waRename"
             /\ cfgTmp[p] = File(inv[p].updated, TRUE)
             /\ cfgFile' = cfgTmp[p]
             /\ EventsOf("config")' = Append(EventsOf("config"), [kind |-> "config", inv |-> p])
     ]_vars

\* Two invocations installing different items both renamed their text over the
\* config file; the file is the output of the later one, which was computed
\* from the text of before the first rename and so lacks the item of the first.
C9_Witness ==
  LET q == EventsOf("config") IN
    /\ Len(q) = 2
    /\ q[1].inv # q[2].inv
    /\ inv[q[1].inv].plans # inv[q[2].inv].plans
    /\ cfgFile = File(inv[q[2].inv].updated, TRUE)
    /\ ~Registers(cfgFile, inv[q[1].inv].plans[1])
    /\ Registers(cfgFile, inv[q[2].inv].plans[1])

\* The positions of the events of a kind in the history.
At(kind) == {n \in 1..Len(events) : events[n].kind = kind}

PromotedBefore(p, n) ==
  LET q == SelectSeq(SubSeq(events, 1, n - 1), LAMBDA e : e.kind = "promote" /\ e.inv = p)
  IN [m \in 1..Len(q) |-> q[m].id]

\* C10: the config file is written only after every plan was promoted, at most
\* once in a call and exactly once in a call that succeeds, with the items of
\* all the plans; nothing is promoted after it; a postinstall command starts
\* only when allowed and after the config write completed.
C10_Phases ==
  \A p \in Called :
    /\ ConfigWritesBy(p) <= 1
    /\ inv[p].pc = "done" => ConfigWritesBy(p) = 1
    /\ \A n \in At("config") :
         /\ PromotedBefore(p, n) = inv[p].plans
         /\ \A m \in At("promote") : m < n
         /\ \A m \in At("spawn") : n < m
    /\ At("spawn") # {} => (At("config") # {} /\ inv[p].allowPostinstall)
    /\ At("config") # {} => \A id \in Range(inv[p].plans) : Registers(cfgFile, id)
    /\ inv[p].pc \in {"cfgMkdir", "cfgRead", "waMkdir", "waMkdtemp", "waWrite", "waWriting",
                      "waRename", "waRelease", "post", "spawn", "exited", "done"}
       => PromotedBy(p) = inv[p].plans
    /\ inv[p].pc \in {"post", "spawn", "exited", "done"} => ConfigWritesBy(p) = 1

\* A call with two plans succeeded: both were promoted, then the config was
\* written, then postinstall commands ran.
C10_Witness ==
  /\ inv["a"].pc = "done"
  /\ Len(inv["a"].plans) = 2
  /\ Len(EventsOf("promote")) = 2
  /\ Len(EventsOf("config")) = 1
  /\ Len(EventsOf("spawn")) >= 2

\* C11: when allowPostinstall is false no postinstall command is spawned,
\* whatever postinstall sections the plans carry, and a successful result has
\* ranPostinstall = false.
C11_NoPostinstall ==
  \A p \in Called :
    ~inv[p].allowPostinstall
    => /\ SelectSeq(events, LAMBDA e : e.kind \in {"spawn", "exit"} /\ e.inv = p) = <<>>
       /\ inv[p].pc \notin {"spawn", "exited"}
       /\ ~inv[p].ran
       /\ inv[p].pc = "done" => inv[p].result.ranPostinstall = FALSE

\* A call without allowPostinstall succeeded on a plan that carries postinstall
\* commands.
C11_Witness ==
  /\ inv["a"].pc = "done"
  /\ ~inv["a"].allowPostinstall
  /\ "tool/hello" \in Range(inv["a"].plans)
  /\ inv["a"].result.ranPostinstall = FALSE

\* The commands of the plans that carry a postinstall section, in plan order
\* and within a plan in declared order.
RECURSIVE ExpectedCommands(_)
ExpectedCommands(plans) ==
  IF plans = <<>> THEN <<>>
  ELSE (IF Plan(Head(plans)).postinstall.present
        THEN Plan(Head(plans)).postinstall.commands ELSE <<>>)
       \o ExpectedCommands(Tail(plans))

Spawned(p) == SelectSeq(events, LAMBDA e : e.kind = "spawn" /\ e.inv = p)

Exited(p) == SelectSeq(events, LAMBDA e : e.kind = "exit" /\ e.inv = p)

\* C12: with allowPostinstall the commands are spawned one at a time (each
\* after the exit of the one before), in plan order and in declared order;
\* every command but the last exited with 0; a command that exits non-zero is
\* the last one started, the call has failed with PostinstallFailed carrying
\* that command and code, and the promoted targets and the written config
\* file are left in place.
C12_PostinstallOrder ==
  \A p \in Called :
    LET sp == Spawned(p)
        ex == Exited(p)
    IN /\ IsPrefix([n \in 1..Len(sp) |-> sp[n].cmd], ExpectedCommands(inv[p].plans))
       /\ Len(ex) <= Len(sp)
       /\ Len(sp) <= Len(ex) + 1
       /\ Len(sp) = Len(ex) + 1 <=> inv[p].pc = "exited"
       /\ \A n \in 1..Len(events) :
            (events[n].kind = "spawn" /\ events[n].inv = p)
            => /\ n > 1 => events[n - 1].kind \in {"config", "exit"}
               /\ (n > 1 /\ events[n - 1].kind = "exit") => events[n - 1].code = 0
       /\ \A n \in 1..Len(ex) :
            /\ ex[n].cmd = sp[n].cmd
            /\ n < Len(ex) => ex[n].code = 0
       /\ (ex # <<>> /\ ex[Len(ex)].code # 0)
          => /\ Len(sp) = Len(ex)
             /\ inv[p].pc = "failed"
             /\ inv[p].result.error = postinstallFailed(ex[Len(ex)].cmd, ex[Len(ex)].code)
       /\ FailedWith(p, "PostinstallFailed")
          => /\ ex # <<>>
             /\ inv[p].result.error = postinstallFailed(ex[Len(ex)].cmd, ex[Len(ex)].code)
             /\ ex[Len(ex)].code # 0
             /\ \A id \in Range(inv[p].plans) :
                  /\ target[id] = Dir(PlanFiles(id))
                  /\ Registers(cfgFile, id)

\* A call with two plans that both carry commands failed on the second
\* command of the first plan, after the first command exited with 0; no
\* command of the second plan was started.
C12_Witness ==
  /\ inv["a"].plans = <<"tool/hello", "themes/dark">>
  /\ FailedWith("a", "PostinstallFailed")
  /\ inv["a"].result.error.cmd = "bun run build"
  /\ Len(Spawned("a")) = 2
  /\ Exited("a")[1].code = 0

\* C13: when a call has returned, the temporary directory of every scope it
\* opened is gone unless its removal failed; the failure of a removal leaves
\* the outcome of the scope as it is: a failure of the scope is the error of
\* the call, a scope without failure goes on, and a call can succeed with a
\* removal that failed.
C13_TmpDirsRemoved ==
  /\ [](\A p \in Called :
          inv[p].pc \in {"done", "failed"}
          => /\ tmp[p] = NoDir
             /\ cfgTmp[p] = NoFile)
  /\ [](\A p \in Invocations : p \in leaked => p \in Called)
  /\ [][\A p \in Called :
          (inv[p].pc \in {"release", "waRelease"} /\ inv'[p] # inv[p])
          => /\ tmp'[p] = NoDir
             /\ IF inv[p].err # NoError
                THEN /\ inv'[p].pc = "failed"
                     /\ inv'[p].result = [tag |-> "err", error |-> inv[p].err]
                ELSE inv'[p].pc \in {"stageMkdir", "cfgMkdir", "post"}
     ]_vars

\* A call succeeded although the removal of one of its temporary directories
\* failed.
C13_Witness ==
  /\ inv["a"].pc = "done"
  /\ "a" \in leaked

(***************************************************************************)
(* JSONC patcher: properties                                               *)
(***************************************************************************)
\* The state after the first upsert on a document, and after a read of the
\* document as it was first.
Upserted == jcalls = "one" /\ jlast.op = "upsert"

ReadAtFirst == jcalls = "none" /\ jlast.op = "get"

\* text is the document with something put in right before the closing
\* brace of its root.
InsertedIn(text) ==
  /\ Len(text) > Len(jparts.head) + Len(jparts.tail)
  /\ Slice(text, 0, Len(jparts.head)) = jparts.head
  /\ Slice(text, Len(text) - Len(jparts.tail), Len(text)) = jparts.tail

\* C14 as stated: on a text with the top-level property, the output of upsert
\* is the text before the value's first character, the formatted new value,
\* and the text after the value's last character, whitespace and comments
\* that follow the value included, for a value of any JSON type.
C14_AsStated ==
  (Upserted /\ jparts.shape = "object" /\ jparts.present)
    => jlast.result = Ok(jparts.before \o formatValueForProperty(jvalue) \o jparts.after)

\* C15 as stated: on a text whose root has no such property, the output of
\* upsert is the text with one segment put in right before the root's closing
\* brace, and a read of the output gives exactly the formatted value.
C15_AsStated ==
  (jcalls = "one" /\ jparts.shape = "object" /\ ~jparts.present)
    => /\ jlast.op = "upsert" => jlast.result.ok /\ InsertedIn(jlast.result.value)
       /\ jlast.op = "get" => jlast.result = Ok(formatValueForProperty(jvalue))

\* C16 as stated: the same upsert once more, on the output of the first,
\* gives that output again, byte for byte.
C16_AsStated ==
  (jcalls = "two" /\ jlast.op = "upsert" /\ jlast.result.ok)
    => jlast.result.value = jlast.input

\* C17 as stated: a read gives exactly the text of the value of the top-level
\* property, from its first character to its last and no whitespace or
\* comment after it, and null when the root has no such property.
C17_AsStated ==
  (ReadAtFirst /\ jparts.shape = "object")
    => jlast.result = Ok(IF jparts.present THEN jparts.value ELSE Null)

\* C18: lookup considers only the direct children of the root. When o occurs
\* only inside the value of another property, a read gives null and upsert
\* puts a new entry in before the root's closing brace, every other byte
\* (the nested o included) as before. When o occurs at the top level as well,
\* a read gives text that starts with the top-level value and ends in the
\* whitespace and comments after it, and upsert replaces that text only.
C18_TopLevelOnly ==
  (jparts.shape = "object" /\ jparts.nested)
    => /\ (ReadAtFirst /\ ~jparts.present) => jlast.result = Ok(Null)
       /\ (Upserted /\ ~jparts.present)
            => jlast.result.ok /\ InsertedIn(jlast.result.value)
       /\ (ReadAtFirst /\ jparts.present)
            => \E k \in 0..Len(jparts.trail) :
                 jlast.result = Ok(jparts.value \o Slice(jparts.trail, 0, k))
       /\ (Upserted /\ jparts.present)
            => \E k \in 0..Len(jparts.trail) :
                 jlast.result = Ok(jparts.before \o formatValueForProperty(jvalue)
                                   \o Slice(jparts.after, k, Len(jparts.after)))

\* An upsert on a document that has o both nested and at the top level.
C18_Witness ==
  /\ Upserted /\ jlast.result.ok
  /\ jparts.shape = "object" /\ jparts.nested /\ jparts.present

\* C19: braces, brackets, colons, commas, quotes and comment markers inside
\* strings and comments do not change what is located. On every document
\* that has such characters in a string or a comment, the root's closing
\* brace is found where the document has it, o is found exactly when the
\* root has the property, its value span starts at the value's first
\* character and ends at the value's end (for a number, true, false or null:
\* at the next comma or brace of the root), and the last significant
\* character before the closing brace is { or a comma exactly when the root
\* has no property or a trailing comma.
C19_StringsAndComments ==
  LET Span(spanRes) ==
        /\ spanRes.ok
        /\ spanRes.value.found = jparts.present
        /\ jparts.present
             => /\ spanRes.value.valueStart = Len(jparts.before)
                /\ spanRes.value.valueEnd =
                     Len(jparts.before) + Len(jparts.value)
                     + (IF jparts.literal THEN Len(jparts.trail) ELSE 0)
      Root(root) ==
        /\ root.ok
        /\ root.value.rootCloseIndex = Len(jparts.head)
        /\ Span(findTopLevelPropertyValueSpan(jlast.input, root.value.rootOpenIndex,
                                              root.value.rootCloseIndex, jname))
        /\ lastSignificantChar(jlast.input, root.value.rootCloseIndex) \in {"{", ","}
             <=> jparts.open
  IN (ReadAtFirst /\ jparts.shape = "object" /\ jparts.decoy)
       => Root(RootOf(jlast.input))

\* A read of a document whose property o is a literal followed by a comment
\* that holds a comma.
C19_Witness ==
  /\ ReadAtFirst /\ jlast.result.ok
  /\ jparts.shape = "object" /\ jparts.decoy /\ jparts.present
  /\ jparts.literal /\ "," \in {jparts.trail[n] : n \in 1..Len(jparts.trail)}

\* C20: a read and an upsert fail with JSONCError, and the file stays as it
\* was, when the first significant character of the text is not { or the
\* root is not closed; on a zero-length text and on a config file that does
\* not exist a read gives null and an upsert gives what it gives on {}.
C20_RootFailures ==
  /\ (jparts.shape \in {"notobject", "unterminated"} /\ jlast.op \in {"get", "upsert"})
       => /\ jlast.result = Fail
          /\ jdoc = [exists |-> TRUE, text |-> jparts.text]
  /\ (jparts.shape \in {"empty", "missing"} /\ ReadAtFirst) => jlast.result = Ok(Null)
  /\ (jparts.shape \in {"empty", "missing"} /\ Upserted)
       => /\ jlast.result.ok
          /\ jlast.result = upsertTopLevelJsoncProperty(<<"{", "}">>, jname, jvalue)

\* An upsert that failed on a root that is not closed.
C20_Witness ==
  /\ jparts.shape = "unterminated"
  /\ jlast.op = "upsert" /\ ~jlast.result.ok

\* text is nothing but whitespace.
Blank(text) == \A n \in 1..Len(text) : isWhitespace(text[n])

\* C21 as stated: on a root without the property, the output of upsert is the
\* text with only this put in right before the root's closing brace: one
\* comma exactly when the root has a property and its last significant
\* character is not a comma, then whitespace, the entry "name": value, and
\* whitespace.
C21_AsStated ==
  LET entry == Quoted(jname) \o <<":", " ">> \o formatValueForProperty(jvalue)
      comma == IF jparts.open THEN <<>> ELSE <<",">>
      Put(seg) ==
        \E a \in 0..Len(seg) :
          /\ a + Len(entry) <= Len(seg)
          /\ Slice(seg, a, a + Len(entry)) = entry
          /\ a >= Len(comma)
          /\ Slice(seg, 0, Len(comma)) = comma
          /\ Blank(Slice(seg, Len(comma), a))
          /\ Blank(Slice(seg, a + Len(entry), Len(seg)))
  IN (Upserted /\ jparts.shape \in {"object", "empty", "missing"} /\ ~jparts.present)
       => /\ jlast.result.ok
          /\ InsertedIn(jlast.result.value)
          /\ Put(Slice(jlast.result.value, Len(jparts.head),
                       Len(jlast.result.value) - Len(jparts.tail)))

(***************************************************************************)
(* Manifests: properties                                                   *)
(***************************************************************************)
Parsed == cin.op = "parseV1" /\ cpc = "parsed"

\* C22 as stated: parseV1 returns a RegistryItemParseError for every raw
\* manifest that breaks an invariant of the manifest: a schemaVersion other
\* than 1, a kind outside the four, an empty or blank name, a file path that
\* is empty, absolute or leaves its directory, a mode other than 0644 and
\* 0755, an optional field of the wrong type.
C22_AsStated ==
  (Parsed /\ cin.flaw # "none")
    => ~cout.result.ok /\ cout.result.error.tag = "RegistryItemParseError"

\* C30: for every valid item m, parseV1 on the serialization of m succeeds
\* and gives an item equal to m in kind, name, description, files (path,
\* content, mode), entry and postinstall, and in registryDependencies with
\* an absent list taken for the empty list.
C30_RoundTrip ==
  (Parsed /\ cin.flaw = "none")
    => /\ cout.result.ok
       /\ cout.result.value =
            [cin.m EXCEPT !.registryDependencies =
                            IF @ = None THEN <<>> ELSE @[1]]

\* An item without registryDependencies, with a file that has a mode and a
\* postinstall with a cwd, parsed from its serialization.
C30_Witness ==
  /\ Parsed /\ cin.flaw = "none" /\ cout.result.ok
  /\ cin.m.registryDependencies = None
  /\ \E n \in 1..Len(cin.m.files) : cin.m.files[n].mode # None
  /\ cin.m.postinstall # None /\ cin.m.postinstall[1].cwd # None

(***************************************************************************)
(* Fetching a manifest: properties                                         *)
(***************************************************************************)
Fetched == cin.op = "fetchRegistryItem" /\ cpc = "done"

\* C23 as stated: the trimmed spec is classified in a fixed order. An empty
\* spec gives MissingSpec. Otherwise, when its last segment is a name of the
\* embedded catalog, the embedded item is returned with the source
\* embedded:<kind>/<name> (or the read of the bundled file failed), and
\* neither the URL nor the path of the spec is touched. Otherwise an http://
\* or https:// spec is fetched over HTTP; otherwise a spec that looks like a
\* path is read, relative to cwd; every other spec fails with UnknownSpec and
\* nothing is touched.
C23_AsStated ==
  LET s == trim(cin.spec)
      key == IF "/" \in Range(s) THEN Split(s)[Len(Split(s))] ELSE s
      res == cout.result
      FileAt(p) == <<[kind |-> "file", at |-> p]>>
  IN Fetched =>
       IF Len(s) = 0 THEN res = Err(missingSpec) /\ cout.touched = <<>>
       ELSE IF key \in Tools
       THEN /\ cout.touched = <<[kind |-> "embedded", at |-> key]>>
            /\ IF res.ok
               THEN /\ res.value.item.name = key
                    /\ res.value.source = <<"e", "m", "b", "e", "d", "d", "e", "d", ":">> \o <<"t", "o", "o", "l">> \o <<"/">> \o key
               ELSE res = Err(embeddedReadFailed(key))
       ELSE IF isUrl(s)
       THEN /\ cout.touched = <<[kind |-> "http", at |-> s]>>
            /\ res.ok => res.value.source = s
            /\ ~res.ok => res.error.tag \in {"FetchFailed", "JSONParseFailed",
                                             "RegistryItemParseError"}
       ELSE IF isPath(s)
       THEN /\ cout.touched = FileAt(IF s[1] = "/" THEN s ELSE resolve(<<cin.cwd, s>>))
            /\ res.ok => res.value.source = cout.touched[1].at
            /\ ~res.ok => res.error.tag \in {"FileReadFailed", "JSONParseFailed",
                                             "RegistryItemParseError"}
       ELSE res = Err(unknownSpec(s)) /\ cout.touched = <<>>

(***************************************************************************)
(* Planning: properties                                                    *)
(***************************************************************************)
Planned == cin.op = "planInstalls" /\ cpc = "done"

\* The path p comes out of path.posix.normalize and the removal of a leading
\* ./ as an absolute path, as .. or a path under .., or as the empty path.
Rejected(p) ==
  LET norm == normalize(p)
      rel == IF startsWith(norm, <<".", "/">>) THEN SubSeq(norm, 3, Len(norm)) ELSE norm
  IN rel = <<>> \/ rel[1] = "/" \/ rel = DotDot \/ startsWith(rel, <<".", ".", "/">>)

HasRejected(item) ==
  \/ item.entry # None /\ Rejected(item.entry[1])
  \/ \E n \in 1..Len(item.files) : Rejected(item.files[n].path)

\* C24: when the entry or a file path of any resolved item normalizes to an
\* absolute path, to a path that leaves the target directory or to the empty
\* path, planInstalls fails with InvalidRegistryFilePath, returns no plan,
\* not even for the valid items before, and no file or directory is touched.
C24_InvalidPaths ==
  (Planned /\ \E n \in 1..Len(cin.resolved) : HasRejected(cin.resolved[n].item))
    => /\ ~cout.result.ok
       /\ cout.result.error.tag = "InvalidRegistryFilePath"
       /\ DOMAIN cout.result = {"ok", "error"}
       /\ InstallerIdle

\* A failed call on two items, the first valid, the second with the file
\* ../escape.txt.
C24_Witness ==
  /\ Planned /\ ~cout.result.ok
  /\ Len(cin.resolved) = 2
  /\ ~HasRejected(cin.resolved[1].item)
  /\ \E n \in 1..Len(cin.resolved[2].item.files) :
       cin.resolved[2].item.files[n].path = <<".", ".", "/", "e", "s", "c", "a", "p", "e", ".", "t", "x", "t">>

\* C25 as stated: in every plan returned, every writes[i].path is a proper
\* descendant of item.targetDir, whatever . and .. segments the accepted
\* file path has.
C25_AsStated ==
  (Planned /\ cout.result.ok)
    => \A n \in 1..Len(cout.result.value) :
         \A i \in 1..Len(cout.result.value[n].writes) :
           /\ startsWith(cout.result.value[n].writes[i].path,
                         cout.result.value[n].item.targetDir \o <<"/">>)
           /\ DotDot \notin Range(Split(cout.result.value[n].writes[i].path))

\* C26 as stated: every plan's targetDir is inside the opencodeDir of the
\* config root, under the directory of its kind, for every item name that
\* parseV1 accepts.
C26_AsStated ==
  (Planned /\ cout.result.ok)
    => \A n \in 1..Len(cout.result.value) :
         Len(trim(cin.resolved[n].item.name)) > 0
           => startsWith(cout.result.value[n].item.targetDir,
                         cin.configRoot.opencodeDir \o <<"/">>
                         \o cin.resolved[n].item.kind \o <<"/">>)

(***************************************************************************)
(* Installer: config roots and re-runs                                     *)
(***************************************************************************)
\* Nothing of the file system was changed since the call started.
Untouched ==
  /\ target = pre.target
  /\ cfgFile = pre.cfgFile
  /\ events = <<>>
  /\ \A p \in Invocations : tmp[p] = NoDir /\ cfgTmp[p] = NoFile

\* The plans all have one and the same config root.
SharedRoot(roots) ==
  \E r \in ConfigRootIds : \A n \in 1..Len(roots) : roots[n] = r

\* C27 as stated: applyInstallPlans fails before any change of the file
\* system, with NoPlans when the plan list is empty and with
\* MissingConfigRoot when the plans do not all share one config root (a plan
\* without config root, or plans with different config roots).
C27_AsStated ==
  \A p \in Invocations :
    inv[p].pc \notin {"idle", "start"}
      => /\ Len(inv[p].plans) = 0
              => inv[p].pc = "failed" /\ inv[p].result.error = noPlans /\ Untouched
         /\ (Len(inv[p].plans) > 0 /\ ~SharedRoot(inv[p].roots))
              => /\ inv[p].pc = "failed"
                 /\ inv[p].result.error = missingConfigRoot
                 /\ Untouched

Finished(p) == inv[p].pc \in {"done", "failed"}

\* What the config file holds after a run of the plans that was not
\* interrupted: the registrations it had (none when it could not be read)
\* with those of the plans.
UninterruptedConfigs(plans) ==
  {File(Doc(PatchItems(items, plans)), TRUE) :
     items \in {{}} \cup (IF pre.cfgFile.exists /\ ~pre.cfgFile.text.bad
                          THEN {pre.cfgFile.text.items} ELSE {})}

LikeUninterrupted(plans) ==
  /\ \A id \in Range(plans) : target[id] = Dir(PlanFiles(id))
  /\ cfgFile \in UninterruptedConfigs(plans)

\* C29 as stated: after a run interrupted between the promotion of its plans
\* and the patching of the config file, the same call once more succeeds
\* (unless an I/O operation fails, the config text is rejected or a
\* postinstall command fails) and ends with the target directories and the
\* config content of an uninterrupted run.
C29_AsStated ==
  Finished("b")
    => /\ inv["b"].result.tag = "err"
            => inv["b"].result.error.tag \in {"IOError", "JSONCError", "PostinstallFailed"}
       /\ inv["b"].result.tag = "ok" => LikeUninterrupted(inv["b"].plans)

\* C29: the same call once more succeeds only with overwrite: then, unless an
\* I/O operation fails, the config text is rejected or a postinstall command
\* fails, it ends with the target directories and the config content of an
\* uninterrupted run. Without overwrite it fails with TargetAlreadyExists for
\* its first plan, or with an I/O error before, and the target directories
\* and the config file are as the interrupted run left them.
C29_Rerun ==
  Finished("b")
    => IF inv["b"].overwrite
       THEN /\ inv["b"].result.tag = "err"
                 => inv["b"].result.error.tag \in {"IOError", "JSONCError",
                                                   "PostinstallFailed"}
            /\ inv["b"].result.tag = "ok" => LikeUninterrupted(inv["b"].plans)
       ELSE /\ inv["b"].result.tag = "err"
            /\ \/ inv["b"].result.error.tag = "IOError"
               \/ inv["b"].result.error = targetAlreadyExists(inv["b"].plans[1])
            /\ \A id \in Range(inv["b"].plans) : target[id] = Dir(PlanFiles(id))
            /\ cfgFile = pre.cfgFile

\* A second call with overwrite that ended well after the first was
\* interrupted.
C29_Witness ==
  /\ inv["a"].pc = "crashed"
  /\ inv["b"].pc = "done" /\ inv["b"].overwrite
  /\ Len(inv["b"].plans) = 2

(***************************************************************************)
(* The config root: properties                                             *)
(***************************************************************************)
PathOf(segs) == <<"/">> \o Joined(segs)

Under(dir, name) == PathOf(Append(Segments(dir), name))

\* The global directories of a home directory.
GlobalDirs(home) ==
  {Under(Under(home, <<".", "c", "o", "n", "f", "i", "g">>), <<"o", "p", "e", "n", "c", "o", "d", "e">>), Under(home, <<".", "o", "p", "e", "n", "c", "o", "d", "e">>)}

\* The ancestors of an absolute directory, itself included, that hold a
\* directory .opencode: how many segments each has.
Holders(segs, dirs) ==
  {k \in 0..Len(segs) : Under(PathOf(SubSeq(segs, 1, k)), <<".", "o", "p", "e", "n", "c", "o", "d", "e">>) \in dirs}

RootIs(res, kind, rootDir, opencodeDir) ==
  /\ res.kind = kind
  /\ res.rootDir = rootDir
  /\ res.opencodeDir = opencodeDir
  /\ res.configPath = opencodeDir \o <<"/">> \o <<"o", "p", "e", "n", "c", "o", "d", "e", ".", "j", "s", "o", "n", "c">>

RootAsSaid(in, res) ==
  LET segs == Segments(resolve(<<in.cwd>>))
      within == {g \in GlobalDirs(in.home) : IsPrefix(Segments(g), segs)}
      holders == Holders(segs, in.dirs)
      nearest == IF holders = {} THEN PathOf(segs)
                 ELSE PathOf(SubSeq(segs, 1, Greatest(holders, 0)))
  IN IF within # {}
     THEN \E g \in within : RootIs(res, "global", g, g)
     ELSE RootIs(res, "project", nearest, Under(nearest, <<".", "o", "p", "e", "n", "c", "o", "d", "e">>))

\* C28: resolveConfigRoot(cwd, home) ends; its result is global, rooted at
\* <home>/.config/opencode or <home>/.opencode, exactly when cwd is that
\* directory or below it by whole path segments; otherwise it is project,
\* rooted at the nearest ancestor of cwd (cwd included) that holds a
\* directory .opencode, or at cwd when none does; configPath is always
\* <opencodeDir>/opencode.jsonc.
C28_ConfigRoot ==
  /\ [](cpc = "done" => RootAsSaid(cin, cout.result))
  /\ <>(cpc = "done")

\* The sibling <home>/.opencode2 of a global directory was resolved, with a
\* directory <home>/.opencode there.
C28_Witness ==
  /\ cpc = "done"
  /\ cin.cwd = <<"/", "h", "/", ".", "o", "p", "e", "n", "c", "o", "d", "e", "2">>
  /\ cin.home = <<"/", "h">>
  /\ <<"/", "h", "/", ".", "o", "p", "e", "n", "c", "o", "d", "e">> \in cin.dirs
  /\ cout.result.kind = "project"

(***************************************************************************)
(* The add command: properties                                             *)
(***************************************************************************)
\* The stage the command failed in, by the calls it made and the error line.
Stages == <<"resolveConfigRoot", "resolveRegistryTree", "planInstalls", "applyInstallPlans">>

\* C31: the add command stops at the first failing stage: after a failed
\* resolveRegistryTree neither planInstalls nor applyInstallPlans is called,
\* after a failed planInstalls applyInstallPlans is not called; in every
\* error case exactly one error line is printed and the exit status is not
\* zero; the exit status is zero only when all three stages succeeded.
C31_FirstFailure ==
  [][cpc' = "exit"
       => /\ cout'.calls \in {SubSeq(Stages, 1, n) : n \in 2..4}
          /\ Len(cout'.stderr) <= 1
          /\ (cout'.stderr # <<>>) <=> (cout'.exitCode # 0)
          /\ (cpc = "start" /\ cout'.stderr # <<>>) => cout'.calls = SubSeq(Stages, 1, 2)
          /\ (cpc = "plan" /\ cout'.stderr # <<>>) => cout'.calls = SubSeq(Stages, 1, 3)
          /\ cout'.exitCode = 0 => (cpc = "apply" /\ cout'.calls = Stages)
          /\ (cpc = "apply" /\ cout'.plans = <<>>) => cout'.exitCode # 0
          /\ cout'.stderr # <<>> => cout'.stderr[1].text \in ErrorTags]_vars

\* planInstalls failed after a successful resolveRegistryTree.
C31_Witness ==
  /\ cpc = "exit"
  /\ cout.calls = SubSeq(Stages, 1, 3)
  /\ cout.resolved # <<>>
  /\ cout.exitCode = 1
  /\ cout.stderr = <<[text |-> "InvalidRegistryFilePath"]>>

(***************************************************************************)
(* Resolver: one visit at a time                                           *)
(***************************************************************************)
\* The key the fetch of a spec gave.
FetchedKey(spec) == KeyOf(registry[spec])

\* Every element before position next of a forEach is done with: fetched,
\* and its key resolved with its whole subtree.
DoneBefore(list, next) ==
  \A i \in 1..(next - 1) :
    /\ IsManifest(registry[list[i]])
    /\ MapHas(FetchedKey(list[i]))

\* The visiting set holds the keys of the visits under way, each once, and
\* every forEach under way is done with the elements before its position.
UnderWay ==
  /\ visiting = {stack[n].key : n \in 1..Len(stack)}
  /\ Cardinality(visiting) = Len(stack)
  /\ DoneBefore(specs, rootIdx)
  /\ \A n \in 1..Len(stack) : DoneBefore(stack[n].deps, stack[n].next)

C33_ExactFiles ==
  [][\A p \in Invocations :
       /\ \A id \in PlanIds :
            ( /\ events' = Append(events, [kind |-> "promote", inv |-> p, id |-> id])
              /\ inv[p].overwrite
              /\ pre.target[id].exists )
            => target'[id] = Dir(PlanFiles(id))
       /\ (inv'[p].pc = "done" /\ inv'[p].overwrite)
            => \A id \in Range(inv'[p].plans) :
                 pre.target[id].exists => target'[id] = Dir(PlanFiles(id))]_vars

\* A call with overwrite succeeded on a plan of two files whose target held
\* the files of another version.
C33_Witness ==
  /\ inv["a"].pc = "done"
  /\ inv["a"].overwrite
  /\ "tool/hello" \in Range(inv["a"].plans)
  /\ pre.target["tool/hello"] = Dir(OldFiles)
  /\ target["tool/hello"] = Dir(PlanFiles("tool/hello"))

(***************************************************************************)
(* Planner and installer on containment                                    *)
(***************************************************************************)
\* C34 as stated: no write of a plan that planInstalls produced is refused
\* with WriteOutsideTargetDir by the staging of applyInstallPlans, whatever
\* file path the planner accepted.
C34_AsStated ==
  cpc = "staged" => cout.staged.ok

\* C35: after a successful install the config holds, for every plan, at
\* ocx.items[kind][name] exactly the value of the plan's configEdits: the
\* source, the item directory as dir, the entry and the postinstall.
C35_AsStated ==
  (cpc = "registered" /\ cout.cfg.ok) =>
    \A n \in 1..Len(cout.staged.value) :
      \E e \in cout.cfg.value :
        /\ e.kind = cout.staged.value[n].item.kind
        /\ e.name = cout.staged.value[n].item.name
        /\ e.value = cout.staged.value[n].configEdits[1].value

\* The plans of the call name the entry.
NamedByPlans(e) ==
  \E n \in 1..Len(cout.staged.value) :
    /\ cout.staged.value[n].item.kind = e.kind
    /\ cout.staged.value[n].item.name = e.name

\* The entry carries what the call installed under its name.
FromPlans(e) ==
  \E n \in 1..Len(cout.staged.value) :
    /\ cout.staged.value[n].item.kind = e.kind
    /\ cout.staged.value[n].item.name = e.name
    /\ cout.staged.value[n].item.source = e.value.source
    /\ cout.staged.value[n].item.entryRel = e.value.entry

C37_AsStated ==
  (cpc = "done" /\ cout.op = "resolveConfigRoot" /\ cin.op = "resolveConfigRoot"
   /\ cout.result.kind = "project")
    => cout.result.opencodeDir \notin GlobalDirs(cin.home)

\* C38: ranPostinstall is true only if at least one command actually ran: it
\* is false when postinstall is not allowed, when no plan has a postinstall
\* section, and when the sections list no commands.
C38_AsStated ==
  \A p \in Called :
    (inv[p].pc = "done" /\ inv[p].result.tag = "ok" /\ inv[p].result.ranPostinstall)
      => Spawned(p) # <<>>

(***************************************************************************)
(* Background shells: properties                                           *)
(***************************************************************************)
\* No call is at a file operation or waits to go on.
BgQuiet == \A t \in Tasks : cpc[t] \in {"idle", "returned", "done"}

EntriesOf(id) == {n \in 1..Len(cout.index.content) : cout.index.content[n].id = id}

\* C39: every shell whose start has returned and that was not killed has
\* exactly one entry in index.json, whatever calls of start and close
\* handlers ran beside it, and once its process has closed and the close
\* handler is through the status of the entry is finished.
C39_AsStated ==
  \A id \in ShellIds :
    (cpc[<<"start", id>>] = "returned" /\ cpc[<<"kill", id>>] = "idle"
     /\ cout.index.exists /\ ~cout.index.torn)
      => /\ Cardinality(EntriesOf(id)) = 1
         /\ (cout.proc[id] = "closed" /\ cpc[<<"close", id>>] = "done")
              => \A n \in EntriesOf(id) : cout.index.content[n].status = "finished"

\* C40: after kill has returned for a shell it killed, the id is neither in
\* index.json nor in runningProcesses, and stays out of both, also when the
\* close handler of the process runs beside the kill or after it.
C40_AsStated ==
  \A id \in KillIds :
    (cpc[<<"kill", id>>] = "returned" /\ id \in cout.killed)
      => /\ id \notin IdsOf(cout.index.content)
         /\ id \notin cout.running

==============================================================================
